---- MODULE Spec2Model ----
(***************************************************************************)
(* EasyDispatch collector: the Delivery Client with its offline queue      *)
(* (collector/api_client.py) and the Transmission Correlator               *)
(* (collector/dmr_monitor.py).                                             *)
(***************************************************************************)
EXTENDS Integers, Sequences, FiniteSets, TLC

(***************************************************************************)
(* Bounds of the exploration.                                              *)
(***************************************************************************)
MaxRecords == 1
MaxRetryAttempts == 3
MaxDrainFailures == 1
MaxLines == 4
MaxBusyLines == 5
MaxEnqueues == 2
MaxRestarts == 1
MaxLogLines == 3
MaxSeconds == 3
MaxDisplayCalls == 3

(***************************************************************************)
(* Python values.  Every value is a pair <<tag, n>>.                       *)
(***************************************************************************)
None == <<"none", 0>>
IntVal(n) == <<"int", n>>
StrVal(n) == <<"str", n>>
DateTimeVal(ms) == <<"datetime", ms>>
Raised == <<"raised", 0>>

Get(d, k) == IF k \in DOMAIN d THEN d[k] ELSE None

Range(s) == {s[i] : i \in DOMAIN s}
SeqToBag(s) == [x \in Range(s) |-> Cardinality({i \in DOMAIN s : s[i] = x})]

VARIABLES
    retry_attempts,   \* APIClient.retry_attempts
    offline_queue,    \* APIClient.offline_queue (FIFO, head first)
    queue_file,       \* content of offline_queue.json: the JSON list last written
    file_valid,       \* the file holds a complete JSON document (or does not exist)
    restarts,         \* process restarts so far
    stop_event,       \* APIClient.stop_event
    endpoint,         \* the remote service: "flaky" or "up"
    pc,               \* position of each thread
    frame,            \* the deliver call each thread is in
    held,             \* `item` of _process_offline_queue
    items,            \* `items` of _save_offline_queue, per thread
    temp_queue,       \* `temp_queue` of _save_offline_queue, per thread
    now,              \* number of items stamped so far (datetime.now())
    calls,            \* foreground deliver calls made so far
    failures,         \* failed drain rounds so far
    acked,            \* record ids the remote service has acknowledged
    queued_ever,      \* record ids whose deliver call ended in 'queued'
    before_attempt,   \* the queue as it was before the drain loop's dequeue
    interfered,       \* the foreground touched the queue during the drain attempt
    current_transmissions, \* DMRMonitor.current_transmissions, in insertion order
    emitted,          \* the callback invocations of the line processed last
    lines,            \* log lines processed so far
    last_line,        \* the event of the line processed last
    pending_start,    \* per slot: the latest VoiceStart no VoiceEnd has followed yet
    expected,         \* what pending_start held for the slot of the last VoiceEnd
    abandoned,        \* start times of the transmissions a VoiceStart replaced
    window_sample,    \* per key: the last sample on its slot since its VoiceStart
    log_exists,       \* the MMDVM log file exists
    log_file,         \* its lines, oldest first
    cursor,           \* lines before the read position of the tailer's file object
    tail_pc,          \* position of DMRMonitor.start / _monitor_log
    running,          \* DMRMonitor.running
    fed,              \* numbers of the lines handed to _process_line, in order
    opened_at,        \* number of lines the file had when the tailer opened it
    active_recordings, \* EasyDispatchCollector.active_recordings: its keys
    recording_calls,  \* the start_recording calls made so far, in order
    processes,        \* AudioCapture: the arecord processes running, by the number of their call
    recording_ids,    \* the 'recording_id' of each entry of active_recordings
    global_stop_event, \* the module-level stop_event of main.py
    loop_pc,          \* position of the command, cleanup and status threads
    stop_pc,          \* position of EasyDispatchCollector.stop
    pending_write,    \* the line the writer has written the beginning of, no newline yet
    mid_line,         \* the read position is inside a line, after its beginning
    fragments,        \* pieces handed to _process_line that were not a whole line
    stop_requested,   \* DMRMonitor.stop has been called
    artifact_exists,  \* the recorded audio file is still on disk
    error_log,        \* errors logged by handle_dmr_event and _save_offline_queue
    call,             \* a call of a function or method on its own: name, arguments, result
    status,           \* DisplayManager.status
    commands,         \* command_polling_loop: the commands of this poll still to run
    polled,           \* the list get_pending_commands returned last
    reports,          \* the post_command_result calls made since, in order
    queue_thread,     \* APIClient.queue_thread: None or the Thread object, by its number
    spawned,          \* Thread objects start_queue_processor has started so far
    thread_pc,        \* position of each of these threads in _process_offline_queue
    main_pc           \* position of the main thread inside start_/stop_queue_processor

rvars == <<file_valid, restarts>>

dvars == <<retry_attempts, offline_queue, queue_file, stop_event, endpoint, pc, frame,
           held, items, temp_queue, now, calls, failures, acked, queued_ever,
           before_attempt, interfered, rvars>>

cvars == <<current_transmissions, emitted, lines, last_line, pending_start, expected,
           abandoned, window_sample>>

tvars == <<log_exists, log_file, cursor, tail_pc, running, fed, opened_at>>

svars == <<global_stop_event, loop_pc, stop_pc>>

\* calls made on their own and the objects they act on
pvars == <<queue_thread, spawned, thread_pc, main_pc>>
zvars == <<commands, polled, reports, pvars>>
yvars == <<call, status, zvars>>

xvars == <<pending_write, mid_line, fragments, stop_requested, artifact_exists,
           error_log, yvars>>

kvars == <<active_recordings, recording_calls, processes, recording_ids>>

ovars == <<tvars, kvars, svars, xvars>>

vars == <<dvars, cvars, ovars>>

Threads == {"fg", "drain"}
Loops == {"command", "cleanup", "status"}
Kinds == {"transmission", "sms", "gps", "emergency"}

NoItem == [type |-> "none", data |-> [radio_id |-> None], audio_file |-> None, timestamp |-> 0]
NoFrame == [kind |-> "none", data |-> [radio_id |-> None], audio_file |-> None, attempts |-> 0,
            slept |-> <<>>, last |-> "none", response |-> "none", result |-> "pending",
            puts |-> 0, only_transient |-> TRUE, success_seen |-> FALSE,
            files |-> FALSE, sent |-> <<>>]

(***************************************************************************)
(* _format_datetime: None for a falsy value, strftime with whole seconds   *)
(* for a datetime, AttributeError for anything else (a str has no          *)
(* strftime).                                                              *)
(***************************************************************************)
_format_datetime_isoformat(dt) ==
    IF dt[1] = "none" THEN None
    ELSE IF dt[1] = "datetime" THEN StrVal(dt[2])
    ELSE Raised

_format_datetime(dt) ==
    IF dt[1] = "none" THEN None
    ELSE IF dt[1] = "datetime" THEN StrVal(dt[2] \div 1000)
    ELSE Raised

\* datetime values: the wall-clock time in milliseconds and, for an aware
\* datetime, its offset from UTC in minutes
AwareDateTimeVal(ms, utcoffset) == <<"datetime", ms, utcoffset>>
Fractions == {0, 1, 499, 500, 999}
UtcOffsets == {0, 60, 0 - 300}
DateTimes ==
    {DateTimeVal(1000 * sec + f) : sec \in 0..MaxSeconds, f \in Fractions} \cup
    UNION {{AwareDateTimeVal(1000 * sec + f, o) : sec \in 0..MaxSeconds, f \in Fractions} :
           o \in UtcOffsets}

(***************************************************************************)
(* The field projections of post_transmission, post_sms, post_gps and      *)
(* post_emergency.                                                         *)
(***************************************************************************)
post_transmission_data(transmission) ==
    [radio_id     |-> Get(transmission, "radio_id"),
     talkgroup_id |-> Get(transmission, "destination_id"),
     timeslot     |-> Get(transmission, "slot"),
     start_time   |-> _format_datetime(Get(transmission, "start_time")),
     end_time     |-> _format_datetime(Get(transmission, "end_time")),
     duration     |-> Get(transmission, "duration"),
     rssi         |-> Get(transmission, "rssi"),
     ber          |-> Get(transmission, "ber")]

post_sms_data(sms) ==
    [from_radio_id   |-> Get(sms, "from_radio_id"),
     to_radio_id     |-> Get(sms, "to_radio_id"),
     to_talkgroup_id |-> Get(sms, "to_talkgroup_id"),
     message         |-> Get(sms, "message"),
     timestamp       |-> _format_datetime(Get(sms, "timestamp"))]

post_gps_data(gps) ==
    [radio_id  |-> Get(gps, "radio_id"),
     latitude  |-> Get(gps, "latitude"),
     longitude |-> Get(gps, "longitude"),
     altitude  |-> Get(gps, "altitude"),
     speed     |-> Get(gps, "speed"),
     heading   |-> Get(gps, "heading"),
     accuracy  |-> Get(gps, "accuracy"),
     timestamp |-> _format_datetime(Get(gps, "timestamp"))]

post_emergency_data(emergency) ==
    [radio_id       |-> Get(emergency, "radio_id"),
     emergency_type |-> Get(emergency, "emergency_type"),
     latitude       |-> Get(emergency, "latitude"),
     longitude      |-> Get(emergency, "longitude"),
     triggered_at   |-> _format_datetime(Get(emergency, "triggered_at"))]

Project(kind, rec) ==
    IF kind = "transmission" THEN post_transmission_data(rec)
    ELSE IF kind = "sms" THEN post_sms_data(rec)
    ELSE IF kind = "gps" THEN post_gps_data(rec)
    ELSE post_emergency_data(rec)

Raises(data) == \E k \in DOMAIN data : data[k] = Raised

\* the record a request is about, as the remote service identifies it
RecordId(kind, data) ==
    IF kind = "sms" THEN Get(data, "from_radio_id")[2] ELSE Get(data, "radio_id")[2]

(***************************************************************************)
(* The records the foreground hands to the deliver calls.                  *)
(***************************************************************************)
Record(kind, id, tm) ==
    IF kind = "transmission" THEN
        [radio_id |-> IntVal(id), destination_id |-> IntVal(9), slot |-> IntVal(1),
         start_time |-> tm, end_time |-> tm, duration |-> IntVal(5),
         rssi |-> None, ber |-> IntVal(1)]
    ELSE IF kind = "sms" THEN
        [from_radio_id |-> IntVal(id), to_radio_id |-> IntVal(7), to_talkgroup_id |-> None,
         message |-> StrVal(0), timestamp |-> tm]
    ELSE IF kind = "gps" THEN
        [radio_id |-> IntVal(id), latitude |-> IntVal(45), longitude |-> IntVal(9),
         altitude |-> None, speed |-> None, heading |-> None, accuracy |-> None,
         timestamp |-> tm]
    ELSE
        [radio_id |-> IntVal(id), emergency_type |-> StrVal(1), triggered_at |-> tm]

(***************************************************************************)
(* json.dump / json.load of the queue file.  None is written as null, an   *)
(* int or a float as a number (a float keeps its decimal point), a str as  *)
(* a string; an item is an object with the keys type, data, audio_file and *)
(* timestamp.                                                              *)
(***************************************************************************)
JsonValue(v) ==
    IF v[1] = "none" THEN <<"null", 0, 0>>
    ELSE IF v[1] = "int" THEN <<"number", v[2], 0>>
    ELSE IF v[1] = "float" THEN <<"number", v[2], 1>>
    ELSE <<"string", v[2], 0>>

PyValue(j) ==
    IF j[1] = "null" THEN None
    ELSE IF j[1] = "number" THEN (IF j[3] = 1 THEN <<"float", j[2]>> ELSE IntVal(j[2]))
    ELSE StrVal(j[2])

JsonObject(item) ==
    [type |-> item.type,
     data |-> [k \in DOMAIN item.data |-> JsonValue(item.data[k])],
     audio_file |-> JsonValue(item.audio_file),
     timestamp |-> item.timestamp]

PyDict(obj) ==
    [type |-> obj.type,
     data |-> [k \in DOMAIN obj.data |-> PyValue(obj.data[k])],
     audio_file |-> PyValue(obj.audio_file),
     timestamp |-> obj.timestamp]

JsonDump(list) == [i \in DOMAIN list |-> JsonObject(list[i])]

JsonLoad(text) == [i \in DOMAIN text |-> PyDict(text[i])]

(***************************************************************************)
(* What one HTTP attempt can come back with.                               *)
(***************************************************************************)
Transient == {"timeout", "conn_error", "http_error"}
OtherError == {"bad_json"}
Outcomes ==
    IF endpoint = "up" THEN {"ok"}
    ELSE {"ok", "flag_false", "unauthorized"} \cup Transient \cup OtherError

(***************************************************************************)
(* DMRMonitor: the groups the patterns match are digit strings; int() and  *)
(* float() turn them into numbers (floats are kept in tenths).             *)
(***************************************************************************)
RECURSIVE int(_)
int(digits) ==
    IF digits = <<>> THEN 0
    ELSE 10 * int(SubSeq(digits, 1, Len(digits) - 1)) + digits[Len(digits)]

SignedInt(txt) == IF txt[1] = "-" THEN 0 - int(txt[2]) ELSE int(txt[2])

FloatVal(tenths) == <<"float", tenths>>
float(txt) == FloatVal(10 * int(txt[1]) + int(txt[2]))

SlotTexts == {<<1>>, <<2>>, <<0, 1>>}
RadioTexts == {<<7>>, <<1, 2>>}
Dests == {<<"TG", <<1>>>>, <<"PC", <<9>>>>}
RssiTexts == {<<"-", <<6, 0>>>>, <<"-", <<7, 5>>>>}
Slots == {int(txt) : txt \in SlotTexts}
RadioIds == {int(txt) : txt \in RadioTexts}

\* the texts of the n-th line of the log: its timestamp, and for a voice end
\* its duration and bit error rate
TsText(n) == <<"text", 1000 * n + 250>>
BadTsText == <<"badtext", 0>>
DurationText(n) == <<<<n>>, <<3>>>>
BerText(n) == <<<<0>>, <<n>>>>
WallClock(n) == 1000 * n + 900

\* _parse_timestamp: strptime, or datetime.now() when the text does not parse
_parse_timestamp(txt, n) ==
    IF txt[1] = "text" THEN DateTimeVal(txt[2]) ELSE DateTimeVal(WallClock(n))

NoTx ==
    [type |-> "none", slot |-> None, radio_id |-> None, destination_type |-> "none",
     destination_id |-> None, start_time |-> None, rssi |-> None, ber |-> None,
     end_time |-> None, duration |-> None]
NoPending == [tx |-> NoTx, second |-> FALSE]
NoLogLine == [kind |-> "none"]
NoLine == [kind |-> "none", slot |-> 0, end_time |-> None, duration |-> None, ber |-> None]

NoCall == [fn |-> "none", args |-> <<>>, out |-> None, done |-> FALSE]

ClientInit ==
    /\ retry_attempts \in 1..MaxRetryAttempts
    /\ offline_queue = <<>>
    /\ queue_file = <<>>
    /\ stop_event = FALSE
    /\ endpoint = "flaky"
    /\ pc = [t \in Threads |-> IF t = "fg" THEN "idle" ELSE "off"]
    /\ frame = [t \in Threads |-> NoFrame]
    /\ held = NoItem
    /\ items = [t \in Threads |-> <<>>]
    /\ temp_queue = [t \in Threads |-> <<>>]
    /\ now = 0
    /\ calls = 0
    /\ failures = 0
    /\ acked = {}
    /\ queued_ever = {}
    /\ before_attempt = <<>>
    /\ interfered = FALSE
    /\ file_valid = TRUE
    /\ restarts = 0
    /\ current_transmissions = <<>>
    /\ emitted = <<>>
    /\ lines = 0
    /\ last_line = NoLine
    /\ pending_start = [s \in Slots |-> NoPending]
    /\ expected = NoPending
    /\ abandoned = {}
    /\ window_sample = [k \in Slots \X RadioIds |-> None]
    /\ log_exists = FALSE
    /\ log_file = <<>>
    /\ cursor = 0
    /\ tail_pc = "init"
    /\ running = FALSE
    /\ fed = <<>>
    /\ opened_at = 0
    /\ active_recordings = {}
    /\ recording_calls = <<>>
    /\ processes = {}
    /\ recording_ids = {}
    /\ global_stop_event = FALSE
    /\ loop_pc = [l \in Loops |-> "off"]
    /\ stop_pc = "none"
    /\ pending_write = NoLogLine
    /\ mid_line = FALSE
    /\ fragments = 0
    /\ stop_requested = FALSE
    /\ artifact_exists = TRUE
    /\ error_log = {}
    /\ status = [slot1_rx |-> FALSE, slot2_rx |-> FALSE, db_connected |-> FALSE,
                 api_connected |-> FALSE, last_dmr_data |-> <<>>, last_update |-> None]
    /\ commands = <<>>
    /\ polled = <<>>
    /\ reports = <<>>
    /\ queue_thread = None
    /\ spawned = 0
    /\ thread_pc = <<>>
    /\ main_pc = "out"

Init == ClientInit /\ call = NoCall

(***************************************************************************)
(* A deliver call (post_transmission, post_sms, post_gps, post_emergency)  *)
(* starts by building `data`; the frame of the call is what _make_request  *)
(* and the response check work on.                                         *)
(***************************************************************************)
\* the locals of a deliver call; `if audio_file and audio_file.exists():
\* files = {'audio': open(audio_file, 'rb')}`
NewFrame(kind, data, audio_file) ==
    [NoFrame EXCEPT !.kind = kind, !.data = data, !.audio_file = audio_file,
                    !.files = (audio_file # None /\ artifact_exists)]

\* the calling thread enters post_<kind>(rec, audio_file)
PostCall(kind, rec, audio_file) ==
    LET data == Project(kind, rec) IN
    /\ pc["fg"] = "idle"
    /\ calls' = calls + 1
    /\ IF Raises(data)
       THEN UNCHANGED <<pc, frame>>
       ELSE /\ pc' = [pc EXCEPT !["fg"] = "request"]
            /\ frame' = [frame EXCEPT !["fg"] = NewFrame(kind, data, audio_file)]
    /\ UNCHANGED rvars
    /\ UNCHANGED <<retry_attempts, offline_queue, queue_file, stop_event, endpoint, held,
                   items, temp_queue, now, failures, acked, queued_ever,
                   before_attempt, interfered>>

\* a deliver call made with a record of the caller's
Deliver(kind, tm, audio_file) ==
    /\ PostCall(kind, Record(kind, calls + 1, tm), audio_file)
    /\ UNCHANGED <<cvars, ovars>>

(***************************************************************************)
(* _make_request: `for attempt in range(self.retry_attempts)`.  Each       *)
(* attempt comes back with one of Outcomes:                                *)
(*   status 200: return response.json()   (success flag true or false)     *)
(*   status 401: return None                                               *)
(*   other status, Timeout, ConnectionError, other exception: sleep        *)
(*   2 ** attempt unless this was the last attempt, then go on             *)
(* and `return None` once the loop is over.  RequestLoop is the set of     *)
(* ways the loop can end from the attempt `attempt` on: the returned       *)
(* response, the attempts made, the sleeps taken, the last outcome and     *)
(* whether every outcome was one of Transient.                             *)
(***************************************************************************)
BackoffDelayOffByOne(attempt) == 2 ^ (attempt + 1)

BackoffDelay(attempt) == 2 ^ attempt

RequestEnd(response, attempts, slept, last, only_transient) ==
    [response |-> response, attempts |-> attempts, slept |-> slept, last |-> last,
     only_transient |-> only_transient]

RECURSIVE RequestLoop(_, _, _, _)
RequestLoop(attempt, slept, last, only_transient) ==
    IF attempt >= retry_attempts
    THEN {RequestEnd("None", attempt, slept, last, only_transient)}
    ELSE UNION {
        IF r = "ok"
        THEN {RequestEnd("json_true", attempt + 1, slept, r, FALSE)}
        ELSE IF r = "flag_false"
        THEN {RequestEnd("json_false", attempt + 1, slept, r, FALSE)}
        ELSE IF r = "unauthorized"
        THEN {RequestEnd("None", attempt + 1, slept, r, FALSE)}
        ELSE RequestLoop(attempt + 1,
                         IF attempt < retry_attempts - 1
                         THEN Append(slept, BackoffDelay(attempt))
                         ELSE slept,
                         r, only_transient /\ r \in Transient)
        : r \in Outcomes}

_make_request == RequestLoop(0, <<>>, "none", TRUE)

\* what the attempt number `attempt` (1, 2, ...) of one _make_request call
\* uploads as the audio part: every attempt passes the same `files`, whose
\* file object was opened once by post_transmission; requests reads it to
\* its end when it builds the body, so later attempts find it at its end
ArtifactSent(files, attempt) ==
    IF ~files THEN "none" ELSE IF attempt = 1 THEN "full" ELSE "empty"

AcceptedOnStatusAlone(response) == response # "None"

\* `if response and response.get('success')` of the post_<kind> methods
Accepted(response) == response = "json_true"

(***************************************************************************)
(* `response = self._make_request(...)` of a deliver call, followed by     *)
(* the check of the response: return True, or go on to _queue_for_retry.   *)
(***************************************************************************)
MakeRequest(t) ==
    /\ pc[t] = "request"
    /\ \E res \in _make_request :
         LET f == frame[t]
             g == [f EXCEPT !.attempts = res.attempts,
                            !.slept = res.slept,
                            !.response = res.response,
                            !.last = res.last,
                            !.only_transient = res.only_transient,
                            !.success_seen = (res.last = "ok"),
                            !.sent = [i \in 1..res.attempts |-> ArtifactSent(f.files, i)]]
         IN /\ acked' = IF res.last = "ok"
                        THEN acked \cup {RecordId(f.kind, f.data)} ELSE acked
            /\ IF Accepted(res.response)
               THEN /\ frame' = [frame EXCEPT ![t] = [g EXCEPT !.result = "True"]]
                    /\ pc' = [pc EXCEPT ![t] = "returned"]
               ELSE /\ frame' = [frame EXCEPT ![t] = g]
                    /\ pc' = [pc EXCEPT ![t] = "enqueue"]
    /\ UNCHANGED <<cvars, rvars, ovars>>
    /\ UNCHANGED <<retry_attempts, offline_queue, queue_file, stop_event, endpoint, held,
                   items, temp_queue, now, calls, failures, queued_ever,
                   before_attempt, interfered>>

(***************************************************************************)
(* _queue_for_retry: build the item, put it, then _save_offline_queue.     *)
(***************************************************************************)
QueueItem(f, stamp) ==
    [type |-> f.kind, data |-> f.data, audio_file |-> f.audio_file, timestamp |-> stamp]

QueueForRetry(t) ==
    /\ pc[t] = "enqueue"
    /\ offline_queue' = Append(offline_queue, QueueItem(frame[t], now + 1))
    /\ now' = now + 1
    /\ frame' = [frame EXCEPT ![t].puts = @ + 1]
    /\ items' = [items EXCEPT ![t] = <<>>]
    /\ temp_queue' = [temp_queue EXCEPT ![t] = <<>>]
    /\ pc' = [pc EXCEPT ![t] = "save_get"]
    /\ interfered' = (interfered \/ (t = "fg" /\ held # NoItem))
    /\ UNCHANGED <<cvars, rvars, ovars>>
    /\ UNCHANGED <<retry_attempts, queue_file, stop_event, endpoint, held, calls,
                   failures, acked, queued_ever, before_attempt>>

(***************************************************************************)
(* _save_offline_queue, one queue operation at a time:                     *)
(*   SaveGet      `while not empty(): get_nowait(); append; temp.put`      *)
(*   SaveRestore  `while not temp_queue.empty(): offline_queue.put(...)`   *)
(*   SaveOpen     `open(self.queue_file, 'w')`                             *)
(*   SaveWrite    `json.dump(items, f)`, and the return to the caller      *)
(***************************************************************************)
\* the locals of _make_request are gone once the deliver call has moved on
DropLog(f) ==
    [f EXCEPT !.attempts = 0, !.slept = <<>>, !.last = "none", !.response = "none",
              !.only_transient = TRUE, !.sent = <<>>]

SaveGet(t) ==
    /\ pc[t] = "save_get"
    /\ frame' = [frame EXCEPT ![t] = DropLog(@)]
    /\ IF offline_queue # <<>>
       THEN /\ items' = [items EXCEPT ![t] = Append(@, Head(offline_queue))]
            /\ temp_queue' = [temp_queue EXCEPT ![t] = Append(@, Head(offline_queue))]
            /\ offline_queue' = Tail(offline_queue)
            /\ interfered' = (interfered \/ (t = "fg" /\ held # NoItem))
            /\ pc' = pc
       ELSE /\ pc' = [pc EXCEPT ![t] = "save_restore"]
            /\ UNCHANGED <<items, temp_queue, offline_queue, interfered>>
    /\ UNCHANGED <<cvars, rvars, ovars>>
    /\ UNCHANGED <<retry_attempts, queue_file, stop_event, endpoint, held, now,
                   calls, failures, acked, queued_ever, before_attempt>>

SaveRestore(t) ==
    /\ pc[t] = "save_restore"
    /\ IF temp_queue[t] # <<>>
       THEN /\ offline_queue' = Append(offline_queue, Head(temp_queue[t]))
            /\ temp_queue' = [temp_queue EXCEPT ![t] = Tail(@)]
            /\ interfered' = (interfered \/ (t = "fg" /\ held # NoItem))
            /\ pc' = pc
       ELSE /\ pc' = [pc EXCEPT ![t] = "save_open"]
            /\ UNCHANGED <<temp_queue, offline_queue, interfered>>
    /\ UNCHANGED <<cvars, rvars, ovars>>
    /\ UNCHANGED <<retry_attempts, queue_file, stop_event, endpoint, frame, held, items,
                   now, calls, failures, acked, queued_ever, before_attempt>>

\* `open(self.queue_file, 'w')` truncates the file
SaveOpen(t) ==
    /\ pc[t] = "save_open"
    /\ queue_file' = <<>>
    /\ file_valid' = FALSE
    /\ pc' = [pc EXCEPT ![t] = "save_write"]
    /\ UNCHANGED <<cvars, restarts, ovars>>
    /\ UNCHANGED <<retry_attempts, offline_queue, stop_event, endpoint, frame, held, items,
                   temp_queue, now, calls, failures, acked, queued_ever, before_attempt,
                   interfered>>

SaveWrite(t) ==
    /\ pc[t] = "save_write"
    /\ queue_file' = JsonDump(items[t])
    /\ file_valid' = TRUE
    /\ items' = [items EXCEPT ![t] = <<>>]
    /\ IF frame[t].result = "pending"
       THEN \* called from _queue_for_retry: the deliver call returns False
            /\ frame' = [frame EXCEPT ![t].result = "False"]
            /\ pc' = [pc EXCEPT ![t] = "returned"]
            /\ queued_ever' = queued_ever \cup {RecordId(frame[t].kind, frame[t].data)}
            /\ UNCHANGED <<held, before_attempt, interfered>>
       ELSE \* called from _process_offline_queue after a success
            /\ frame' = [frame EXCEPT ![t] = NoFrame]
            /\ pc' = [pc EXCEPT ![t] = "loop"]
            /\ held' = NoItem
            /\ before_attempt' = <<>>
            /\ interfered' = FALSE
            /\ queued_ever' = queued_ever
    /\ UNCHANGED <<cvars, restarts, ovars>>
    /\ UNCHANGED <<retry_attempts, offline_queue, stop_event, endpoint, temp_queue, now,
                   calls, failures, acked>>

\* mkdir or open raises (the file is as it was), or json.dump raises (the
\* file stays truncated): `except Exception` logs the error and the flush
\* returns to its caller as if it had written
SaveFails(t) ==
    /\ pc[t] \in {"save_open", "save_write"}
    /\ error_log' = error_log \cup {[what |-> "_save_offline_queue", thread |-> t,
                                     record |-> RecordId(frame[t].kind, frame[t].data)]}
    /\ items' = [items EXCEPT ![t] = <<>>]
    /\ IF frame[t].result = "pending"
       THEN /\ frame' = [frame EXCEPT ![t].result = "False"]
            /\ pc' = [pc EXCEPT ![t] = "returned"]
            /\ queued_ever' = queued_ever \cup {RecordId(frame[t].kind, frame[t].data)}
            /\ UNCHANGED <<held, before_attempt, interfered>>
       ELSE /\ frame' = [frame EXCEPT ![t] = NoFrame]
            /\ pc' = [pc EXCEPT ![t] = "loop"]
            /\ held' = NoItem
            /\ before_attempt' = <<>>
            /\ interfered' = FALSE
            /\ queued_ever' = queued_ever
    /\ UNCHANGED <<pending_write, mid_line, fragments, stop_requested, artifact_exists,
                   yvars>>
    /\ UNCHANGED <<cvars, rvars, tvars, kvars, svars>>
    /\ UNCHANGED <<retry_attempts, offline_queue, queue_file, stop_event, endpoint,
                   temp_queue, now, calls, failures, acked>>

\* the foreground deliver call hands its result to the caller
Return ==
    /\ pc["fg"] = "returned"
    /\ pc' = [pc EXCEPT !["fg"] = "idle"]
    /\ frame' = [frame EXCEPT !["fg"] = NoFrame]
    /\ UNCHANGED <<cvars, rvars, ovars>>
    /\ UNCHANGED <<retry_attempts, offline_queue, queue_file, stop_event, endpoint, held,
                   items, temp_queue, now, calls, failures, acked, queued_ever,
                   before_attempt, interfered>>

(***************************************************************************)
(* start_queue_processor                                                   *)
(***************************************************************************)
start_queue_processor ==
    /\ pc["drain"] \in {"off", "exited"}
    /\ stop_event' = FALSE
    /\ pc' = [pc EXCEPT !["drain"] = "loop"]
    /\ UNCHANGED <<cvars, rvars, ovars>>
    /\ UNCHANGED <<retry_attempts, offline_queue, queue_file, endpoint, frame, held,
                   items, temp_queue, now, calls, failures, acked, queued_ever,
                   before_attempt, interfered>>

(***************************************************************************)
(* _process_offline_queue                                                  *)
(***************************************************************************)
\* `while not self.stop_event.is_set()`
DrainLoop ==
    /\ pc["drain"] = "loop"
    /\ pc' = [pc EXCEPT !["drain"] = IF stop_event THEN "exited" ELSE "get"]
    /\ UNCHANGED <<cvars, rvars, ovars>>
    /\ UNCHANGED <<retry_attempts, offline_queue, queue_file, stop_event, endpoint, frame,
                   held, items, temp_queue, now, calls, failures, acked, queued_ever,
                   before_attempt, interfered>>

\* `item = self.offline_queue.get(timeout=10)` and the dispatch on item['type'];
\* building `data` inside post_<kind> may raise, which leaves the try block
DrainGet ==
    LET item == Head(offline_queue)
        data == Project(item.type, item.data) IN
    /\ pc["drain"] = "get"
    /\ offline_queue # <<>>
    /\ failures < MaxDrainFailures \/ endpoint = "up"
    /\ offline_queue' = Tail(offline_queue)
    /\ held' = item
    /\ before_attempt' = offline_queue
    /\ interfered' = (pc["fg"] \in {"save_get", "save_restore", "save_open", "save_write"})
    /\ IF Raises(data)
       THEN /\ pc' = [pc EXCEPT !["drain"] = "except"]
            /\ frame' = frame
       ELSE /\ pc' = [pc EXCEPT !["drain"] = "request"]
            /\ frame' = [frame EXCEPT !["drain"] = NewFrame(item.type, data, item.audio_file)]
    /\ UNCHANGED <<cvars, rvars, ovars>>
    /\ UNCHANGED <<retry_attempts, queue_file, stop_event, endpoint, items, temp_queue,
                   now, calls, failures, acked, queued_ever>>

\* `except Empty: pass`
DrainEmpty ==
    /\ pc["drain"] = "get"
    /\ offline_queue = <<>>
    /\ pc' = [pc EXCEPT !["drain"] = "loop"]
    /\ UNCHANGED <<cvars, rvars, ovars>>
    /\ UNCHANGED <<retry_attempts, offline_queue, queue_file, stop_event, endpoint, frame,
                   held, items, temp_queue, now, calls, failures, acked, queued_ever,
                   before_attempt, interfered>>

\* `except Exception as e: ... time.sleep(10)`
DrainExcept ==
    /\ pc["drain"] = "except"
    /\ pc' = [pc EXCEPT !["drain"] = "loop"]
    /\ held' = NoItem
    /\ before_attempt' = <<>>
    /\ interfered' = FALSE
    /\ UNCHANGED <<cvars, rvars, ovars>>
    /\ UNCHANGED <<retry_attempts, offline_queue, queue_file, stop_event, endpoint, frame,
                   items, temp_queue, now, calls, failures, acked, queued_ever>>

\* `if not success: self.offline_queue.put(item)`
DrainRequeue ==
    /\ pc["drain"] = "returned"
    /\ frame["drain"].result = "False"
    /\ offline_queue' = Append(offline_queue, held)
    /\ failures' = failures + 1
    /\ pc' = [pc EXCEPT !["drain"] = "cooldown"]
    /\ UNCHANGED <<cvars, rvars, ovars>>
    /\ UNCHANGED <<retry_attempts, queue_file, stop_event, endpoint, frame, held, items,
                   temp_queue, now, calls, acked, queued_ever, before_attempt, interfered>>

\* `time.sleep(60)`
DrainCooldown ==
    /\ pc["drain"] = "cooldown"
    /\ pc' = [pc EXCEPT !["drain"] = "loop"]
    /\ held' = NoItem
    /\ frame' = [frame EXCEPT !["drain"] = NoFrame]
    /\ before_attempt' = <<>>
    /\ interfered' = FALSE
    /\ UNCHANGED <<cvars, rvars, ovars>>
    /\ UNCHANGED <<retry_attempts, offline_queue, queue_file, stop_event, endpoint, items,
                   temp_queue, now, calls, failures, acked, queued_ever>>

\* `else: self._save_offline_queue()`
DrainSuccess ==
    /\ pc["drain"] = "returned"
    /\ frame["drain"].result = "True"
    /\ items' = [items EXCEPT !["drain"] = <<>>]
    /\ temp_queue' = [temp_queue EXCEPT !["drain"] = <<>>]
    /\ pc' = [pc EXCEPT !["drain"] = "save_get"]
    /\ UNCHANGED <<cvars, rvars, ovars>>
    /\ UNCHANGED <<retry_attempts, offline_queue, queue_file, stop_event, endpoint, frame,
                   held, now, calls, failures, acked, queued_ever,
                   before_attempt, interfered>>

\* the remote service comes back and stays available
EndpointRecovers ==
    /\ endpoint = "flaky"
    /\ endpoint' = "up"
    /\ UNCHANGED <<cvars, rvars, ovars>>
    /\ UNCHANGED <<retry_attempts, offline_queue, queue_file, stop_event, pc, frame, held,
                   items, temp_queue, now, calls, failures, acked, queued_ever,
                   before_attempt, interfered>>

(***************************************************************************)
(* The process dies at any point and is started again: APIClient.__init__  *)
(* runs _load_offline_queue, which puts the items of the file in file      *)
(* order; a file json.load cannot parse leaves the queue empty (the        *)
(* exception is logged).                                                   *)
(***************************************************************************)
LoadReversed(text, valid) ==
    IF valid
    THEN [i \in DOMAIN text |-> JsonLoad(text)[Len(text) + 1 - i]]
    ELSE <<>>

_load_offline_queue(text, valid) ==
    IF valid THEN JsonLoad(text) ELSE <<>>

CrashRestart ==
    /\ restarts < MaxRestarts
    /\ restarts' = restarts + 1
    /\ offline_queue' = _load_offline_queue(queue_file, file_valid)
    /\ stop_event' = FALSE
    /\ pc' = [fg |-> "idle", drain |-> "off"]
    /\ frame' = [t \in Threads |-> NoFrame]
    /\ held' = NoItem
    /\ items' = [t \in Threads |-> <<>>]
    /\ temp_queue' = [t \in Threads |-> <<>>]
    /\ before_attempt' = <<>>
    /\ interfered' = FALSE
    /\ UNCHANGED <<retry_attempts, queue_file, file_valid, endpoint, now, calls, failures,
                   acked, queued_ever>>
    /\ UNCHANGED <<cvars, ovars>>

(***************************************************************************)
(* current_transmissions is a dict: entries in insertion order, assigning  *)
(* to a key that is present replaces the value in place.                   *)
(***************************************************************************)
Key(slot, radio_id) == <<slot, radio_id>>

HasKey(d, key) == \E i \in DOMAIN d : d[i].key = key

DictAppend(d, key, value) == Append(d, [key |-> key, value |-> value])

DictSet(d, key, value) ==
    IF HasKey(d, key)
    THEN [i \in DOMAIN d |-> IF d[i].key = key THEN [key |-> key, value |-> value] ELSE d[i]]
    ELSE Append(d, [key |-> key, value |-> value])

DictDel(d, key) == SelectSeq(d, LAMBDA e : e.key # key)

Min(S) == CHOOSE x \in S : \A y \in S : x <= y

FirstVoiceOnAnySlot(d, slot) ==
    LET m == {i \in DOMAIN d : d[i].value.type = "voice"}
    IN IF m = {} THEN 0 ELSE Min(m)

\* `for key, transmission in list(...items()): if transmission['slot'] == slot
\* and transmission['type'] == 'voice': ... break`: the first such entry, 0 if none
FirstVoiceOnSlot(d, slot) ==
    LET m == {i \in DOMAIN d : d[i].value.slot = IntVal(slot) /\ d[i].value.type = "voice"}
    IN IF m = {} THEN 0 ELSE Min(m)

\* `for transmission in ...values(): if transmission['slot'] == slot: ... break`
FirstOnSlot(d, slot) ==
    LET m == {i \in DOMAIN d : d[i].value.slot = IntVal(slot)}
    IN IF m = {} THEN 0 ELSE Min(m)

SetRssiOnSlot(d, i, rssi) ==
    [j \in DOMAIN d |->
        IF d[j].value.slot = d[i].value.slot THEN [d[j] EXCEPT !.value.rssi = rssi] ELSE d[j]]

\* `transmission['rssi'] = rssi` on the entry the loop stopped at
SetRssi(d, i, rssi) == [d EXCEPT ![i].value.rssi = rssi]

Callback(event, data) == [event |-> event, data |-> data]

\* The handlers, given the groups of the match; n is the number of the line,
\* which stands for the time the writer logged it at.
_handle_voice_header(n, slot_txt, radio_txt, dest) ==
        LET slot == int(slot_txt)
            radio_id == int(radio_txt)
            key == Key(slot, radio_id)
            transmission ==
                [type |-> "voice", slot |-> IntVal(slot), radio_id |-> IntVal(radio_id),
                 destination_type |-> dest[1], destination_id |-> IntVal(int(dest[2])),
                 start_time |-> _parse_timestamp(TsText(n), n),
                 rssi |-> None, ber |-> None, end_time |-> None, duration |-> None]
        IN /\ lines' = lines + 1
           /\ current_transmissions' = DictSet(current_transmissions, key, transmission)
           /\ emitted' = <<Callback("transmission_start", transmission)>>
           /\ last_line' = [NoLine EXCEPT !.kind = "voice_header", !.slot = slot]
           /\ abandoned' = abandoned \cup
                  {current_transmissions[i].value.start_time :
                      i \in {j \in DOMAIN current_transmissions :
                                current_transmissions[j].key = key}}
           /\ pending_start' = [pending_start EXCEPT ![slot] =
                  [tx |-> transmission, second |-> HasKey(current_transmissions, key)]]
           /\ expected' = NoPending
           /\ window_sample' = [window_sample EXCEPT ![key] = None]

_handle_voice_end(n, slot_txt) ==
        LET slot == int(slot_txt)
            end_time == _parse_timestamp(TsText(n), n)
            duration == float(DurationText(n))
            ber == float(BerText(n))
            i == FirstVoiceOnSlot(current_transmissions, slot)
        IN /\ lines' = lines + 1
           /\ IF i = 0
              THEN /\ emitted' = <<>>
                   /\ current_transmissions' = current_transmissions
              ELSE LET closed == [current_transmissions[i].value EXCEPT
                                     !.end_time = end_time, !.duration = duration,
                                     !.ber = ber]
                   IN /\ emitted' = <<Callback("transmission_end", closed)>>
                      /\ current_transmissions' =
                             DictDel(current_transmissions, current_transmissions[i].key)
           /\ last_line' = [kind |-> "voice_end", slot |-> slot, end_time |-> end_time,
                            duration |-> duration, ber |-> ber]
           /\ expected' = pending_start[slot]
           /\ pending_start' = [pending_start EXCEPT ![slot] = NoPending]
           /\ UNCHANGED <<abandoned, window_sample>>

_handle_rssi(slot_txt, rssi_txt) ==
        LET slot == int(slot_txt)
            rssi == SignedInt(rssi_txt)
            i == FirstOnSlot(current_transmissions, slot)
        IN /\ lines' = lines + 1
           /\ current_transmissions' =
                  IF i = 0 THEN current_transmissions
                  ELSE SetRssi(current_transmissions, i, IntVal(rssi))
           /\ emitted' = <<>>
           /\ last_line' = [NoLine EXCEPT !.kind = "rssi", !.slot = slot]
           /\ expected' = NoPending
           /\ window_sample' =
                  [k \in DOMAIN window_sample |->
                      IF k[1] = slot /\ HasKey(current_transmissions, k)
                      THEN IntVal(rssi) ELSE window_sample[k]]
           /\ UNCHANGED <<pending_start, abandoned>>

_handle_data_header(n, slot_txt, radio_txt, dest) ==
        LET slot == int(slot_txt)
            data_transmission ==
                [type |-> "data", slot |-> IntVal(slot), radio_id |-> IntVal(int(radio_txt)),
                 destination_type |-> dest[1], destination_id |-> IntVal(int(dest[2])),
                 timestamp |-> _parse_timestamp(TsText(n), n)]
        IN /\ lines' = lines + 1
           /\ emitted' = <<Callback("data_transmission", data_transmission)>>
           /\ last_line' = [NoLine EXCEPT !.kind = "data_header", !.slot = slot]
           /\ expected' = NoPending
           /\ UNCHANGED <<current_transmissions, pending_start, abandoned, window_sample>>

_handle_emergency(n, ts, slot_txt) ==
        LET slot == int(slot_txt)
            emergency ==
                [type |-> "emergency", slot |-> IntVal(slot),
                 timestamp |-> _parse_timestamp(ts, n)]
        IN /\ lines' = lines + 1
           /\ emitted' = <<Callback("emergency", emergency)>>
           /\ last_line' = [NoLine EXCEPT !.kind = "emergency", !.slot = slot]
           /\ expected' = NoPending
           /\ UNCHANGED <<current_transmissions, pending_start, abandoned, window_sample>>

\* the monitor processes one more line of the log
VoiceHeaderLine ==
    /\ lines < MaxLines
    /\ \E slot_txt \in SlotTexts, radio_txt \in RadioTexts, dest \in Dests :
          _handle_voice_header(lines + 1, slot_txt, radio_txt, dest)
    /\ UNCHANGED <<dvars, ovars>>

VoiceEndLine ==
    /\ lines < MaxLines
    /\ \E slot_txt \in SlotTexts : _handle_voice_end(lines + 1, slot_txt)
    /\ UNCHANGED <<dvars, ovars>>

RssiLine ==
    /\ lines < MaxLines
    /\ \E slot_txt \in SlotTexts, rssi_txt \in RssiTexts : _handle_rssi(slot_txt, rssi_txt)
    /\ UNCHANGED <<dvars, ovars>>

DataHeaderLine ==
    /\ lines < MaxLines
    /\ \E slot_txt \in SlotTexts, radio_txt \in RadioTexts, dest \in Dests :
          _handle_data_header(lines + 1, slot_txt, radio_txt, dest)
    /\ UNCHANGED <<dvars, ovars>>

EmergencyLine ==
    /\ lines < MaxLines
    /\ \E slot_txt \in SlotTexts, ts \in {TsText(lines + 1), BadTsText} :
          _handle_emergency(lines + 1, ts, slot_txt)
    /\ UNCHANGED <<dvars, ovars>>

\* a log in which every line is about the same slot
BusySlot == {<<1>>}

BusyVoiceHeader ==
    /\ lines < MaxBusyLines
    /\ \E slot_txt \in BusySlot, radio_txt \in RadioTexts, dest \in Dests :
          _handle_voice_header(lines + 1, slot_txt, radio_txt, dest)
    /\ UNCHANGED <<dvars, ovars>>

BusyVoiceEnd ==
    /\ lines < MaxBusyLines
    /\ \E slot_txt \in BusySlot : _handle_voice_end(lines + 1, slot_txt)
    /\ UNCHANGED <<dvars, ovars>>

BusyRssi ==
    /\ lines < MaxBusyLines
    /\ \E slot_txt \in BusySlot, rssi_txt \in RssiTexts : _handle_rssi(slot_txt, rssi_txt)
    /\ UNCHANGED <<dvars, ovars>>

AudioPath == StrVal(2)

(***************************************************************************)
(* The MMDVM log and DMRMonitor.start / _monitor_log.  A line of the log   *)
(* is the pattern it matches with the texts of its groups; the n-th line   *)
(* carries the timestamp TsText(n).                                        *)
(***************************************************************************)
LogKinds == {"voice_header", "voice_end", "rssi", "data_header", "emergency", "other"}

LogLine(kind) ==
    [kind |-> kind, slot |-> <<1>>, radio |-> <<7>>, dest |-> <<"TG", <<1>>>>,
     rssi |-> <<"-", <<6, 0>>>>]

LogLines == {LogLine(kind) : kind \in LogKinds}

\* the MMDVM host appends a line to its log, creating the file if need be
WriterAppend ==
    /\ Len(log_file) < MaxLogLines
    /\ pending_write = NoLogLine
    /\ \E line \in LogLines : log_file' = Append(log_file, line)
    /\ log_exists' = TRUE
    /\ UNCHANGED <<cursor, tail_pc, running, fed, opened_at, kvars>>
    /\ UNCHANGED <<dvars, cvars, svars, xvars>>

\* DMRMonitor.start: `self.running = True`, then _monitor_log
DMRMonitorStart ==
    /\ tail_pc = "init"
    /\ tail_pc' = "waiting"
    /\ running' = TRUE
    /\ UNCHANGED <<log_exists, log_file, cursor, fed, opened_at, kvars>>
    /\ UNCHANGED <<dvars, cvars, svars, xvars>>

\* DMRMonitor.stop, called from another thread at any time, before start
\* as well: `self.running = False`
DMRMonitorStop ==
    /\ ~stop_requested
    /\ running' = FALSE
    /\ stop_requested' = TRUE
    /\ UNCHANGED <<log_exists, log_file, cursor, tail_pc, fed, opened_at, kvars>>
    /\ UNCHANGED <<pending_write, mid_line, fragments, artifact_exists, error_log, yvars>>
    /\ UNCHANGED <<dvars, cvars, svars>>

SeekStart(file) == 0

\* `f.seek(0, 2)`: the position after the last line the file has now
SeekEnd(file) == Len(file)

\* `while not self.log_file.exists() and self.running: sleep(5)`, then
\* `if not self.running: return`, else open the file and seek to its end
MonitorWait ==
    /\ tail_pc = "waiting"
    /\ ~running \/ log_exists
    /\ IF ~running
       THEN /\ tail_pc' = "stopped"
            /\ UNCHANGED <<cursor, opened_at>>
       ELSE /\ tail_pc' = "tailing"
            /\ cursor' = SeekEnd(log_file)
            /\ opened_at' = Len(log_file)
    /\ mid_line' = (tail_pc' = "tailing" /\ pending_write # NoLogLine)
    /\ UNCHANGED <<log_exists, log_file, running, fed, kvars>>
    /\ UNCHANGED <<pending_write, fragments, stop_requested, artifact_exists, error_log, yvars>>
    /\ UNCHANGED <<dvars, cvars, svars>>

\* `time.sleep(5)` while the file is not there
MonitorWaitSleep ==
    /\ \/ tail_pc = "waiting" /\ running /\ ~log_exists /\ tail_pc' = "wait_sleep"
       \/ tail_pc = "wait_sleep" /\ tail_pc' = "waiting"
    /\ UNCHANGED <<log_exists, log_file, cursor, running, fed, opened_at, kvars>>
    /\ UNCHANGED <<dvars, cvars, svars, xvars>>

\* `if not line: time.sleep(0.1); continue`
MonitorPoll ==
    /\ \/ /\ tail_pc = "tailing" /\ running /\ pc["fg"] = "idle"
          /\ cursor = Len(log_file)
          /\ pending_write = NoLogLine \/ mid_line
          /\ tail_pc' = "poll_sleep"
       \/ tail_pc = "poll_sleep" /\ tail_pc' = "tailing"
    /\ UNCHANGED <<log_exists, log_file, cursor, running, fed, opened_at, kvars>>
    /\ UNCHANGED <<dvars, cvars, svars, xvars>>

\* an exception inside _monitor_log (the file cannot be opened or read):
\* `except Exception` of DMRMonitor.start calls self.stop() and start returns
MonitorError ==
    /\ tail_pc \in {"waiting", "tailing"}
    /\ running
    /\ pc["fg"] = "idle"
    /\ running' = FALSE
    /\ stop_requested' = TRUE
    /\ tail_pc' = "stopped"
    /\ UNCHANGED <<log_exists, log_file, cursor, fed, opened_at, kvars>>
    /\ UNCHANGED <<pending_write, mid_line, fragments, artifact_exists, error_log, yvars>>
    /\ UNCHANGED <<dvars, cvars, svars>>

\* the MMDVM host creates its log file
LogCreated ==
    /\ ~log_exists
    /\ log_exists' = TRUE
    /\ UNCHANGED <<log_file, cursor, tail_pc, running, fed, opened_at, kvars>>
    /\ UNCHANGED <<dvars, cvars, svars, xvars>>

\* `while self.running:` is over
MonitorExit ==
    /\ tail_pc = "tailing"
    /\ ~running
    /\ pc["fg"] = "idle"
    /\ tail_pc' = "stopped"
    /\ UNCHANGED <<log_exists, log_file, cursor, running, fed, opened_at, kvars>>
    /\ UNCHANGED <<dvars, cvars, svars, xvars>>

\* _process_line: the first pattern that matches picks the handler
_process_line(n, line) ==
    IF line.kind = "voice_header"
    THEN _handle_voice_header(n, line.slot, line.radio, line.dest)
    ELSE IF line.kind = "voice_end"
    THEN _handle_voice_end(n, line.slot)
    ELSE IF line.kind = "rssi"
    THEN _handle_rssi(line.slot, line.rssi)
    ELSE IF line.kind = "data_header"
    THEN _handle_data_header(n, line.slot, line.radio, line.dest)
    ELSE IF line.kind = "emergency"
    THEN _handle_emergency(n, TsText(n), line.slot)
    ELSE /\ lines' = lines + 1
         /\ emitted' = <<>>
         /\ last_line' = NoLine
         /\ expected' = NoPending
         /\ UNCHANGED <<current_transmissions, pending_start, abandoned, window_sample>>

(***************************************************************************)
(* The callback of the collector, main.py: handle_dmr_event and the four   *)
(* handlers it dispatches to.  It runs inside _process_line, on the thread *)
(* that reads the log, and returns when the deliver call it makes returns. *)
(***************************************************************************)
RecordingKey(transmission) == <<transmission.slot[2], transmission.radio_id[2]>>

\* post_radio_status: the data of the request; the answer is not looked at
\* by handle_transmission_start and nothing is queued
post_radio_status_data(transmission) ==
    [radio_id |-> Get(transmission, "radio_id"), status |-> StrVal(3),
     rssi |-> Get(transmission, "rssi"), ber |-> Get(transmission, "ber")]

start_recording_swapped(transmission) ==
    <<transmission.slot, transmission.destination_id, transmission.radio_id>>

\* the arguments of `self.audio_capture.start_recording(...)`
start_recording_args(transmission) ==
    <<transmission.slot, transmission.radio_id, transmission.destination_id>>

\* `self.active_recordings[key] = {'recording_id': recording_id, ...}`
SetRecordingId(ids, key, recording_id) ==
    {e \in ids : e.key # key} \cup {[key |-> key, recording_id |-> recording_id]}

\* `self.active_recordings[key]['recording_id']`
RecordingId(ids, key) == (CHOOSE e \in ids : e.key = key).recording_id

\* AudioCapture.stop_recording: the process of that recording is terminated
\* (or killed); an id that is not there changes nothing
stop_recording(running_processes, recording_id) == running_processes \ {recording_id}

\* start_recording gives a recording id or None; `live` tells whether the
\* live map of the monitor had the entry of this transmission at the call
handle_transmission_start(transmission) ==
    /\ recording_calls' = Append(recording_calls,
            [args |-> start_recording_args(transmission),
             live |-> HasKey(current_transmissions', RecordingKey(transmission))])
    /\ \E recording_id \in {None, StrVal(4)} :
          /\ active_recordings' =
                 IF recording_id # None
                 THEN active_recordings \cup {RecordingKey(transmission)}
                 ELSE active_recordings
          /\ processes' =
                 IF recording_id # None
                 THEN processes \cup {Len(recording_calls) + 1}
                 ELSE processes
          /\ recording_ids' =
                 IF recording_id # None
                 THEN SetRecordingId(recording_ids, RecordingKey(transmission),
                                     Len(recording_calls) + 1)
                 ELSE recording_ids
    /\ pc' = [pc EXCEPT !["fg"] = "status_request"]
    /\ frame' = [frame EXCEPT !["fg"] =
                    NewFrame("radio_status", post_radio_status_data(transmission), None)]
    /\ UNCHANGED rvars
    /\ UNCHANGED <<retry_attempts, offline_queue, queue_file, stop_event, endpoint, held,
                   items, temp_queue, now, calls, failures, acked, queued_ever,
                   before_attempt, interfered>>

\* stop_recording gives the path of the file or None
handle_transmission_end(transmission) ==
    IF RecordingKey(transmission) \in active_recordings
    THEN /\ \E audio_file \in {None, AudioPath} :
               PostCall("transmission", transmission, audio_file)
         /\ active_recordings' = active_recordings \ {RecordingKey(transmission)}
         /\ processes' = stop_recording(processes, RecordingId(recording_ids, RecordingKey(transmission)))
         /\ recording_ids' = {e \in recording_ids : e.key # RecordingKey(transmission)}
         /\ UNCHANGED recording_calls
    ELSE /\ PostCall("transmission", transmission, None)
         /\ UNCHANGED kvars

handle_emergency(emergency) ==
    /\ PostCall("emergency",
                [radio_id |-> IntVal(0), emergency_type |-> StrVal(1),
                 triggered_at |-> emergency.timestamp], None)
    /\ UNCHANGED kvars

handle_dmr_event(events) ==
    IF events = <<>> THEN UNCHANGED <<dvars, kvars>>
    ELSE IF events[1].event = "transmission_start"
    THEN handle_transmission_start(events[1].data)
    ELSE IF events[1].event = "transmission_end"
    THEN handle_transmission_end(events[1].data)
    ELSE IF events[1].event = "emergency"
    THEN handle_emergency(events[1].data)
    ELSE UNCHANGED <<dvars, kvars>>

\* the request of post_radio_status comes back
RadioStatus ==
    /\ pc["fg"] = "status_request"
    /\ _make_request # {}
    /\ pc' = [pc EXCEPT !["fg"] = "idle"]
    /\ frame' = [frame EXCEPT !["fg"] = NoFrame]
    /\ UNCHANGED <<cvars, rvars, ovars>>
    /\ UNCHANGED <<retry_attempts, offline_queue, queue_file, stop_event, endpoint, held,
                   items, temp_queue, now, calls, failures, acked, queued_ever,
                   before_attempt, interfered>>

\* `line = f.readline()` gives a line: _process_line(line), and with it the
\* callback if the monitor has one
ReadLine(has_callback) ==
    /\ tail_pc = "tailing"
    /\ running
    /\ pc["fg"] = "idle"
    /\ cursor < Len(log_file)
    /\ ~mid_line
    /\ cursor' = cursor + 1
    /\ fed' = Append(fed, cursor + 1)
    /\ _process_line(cursor + 1, log_file[cursor + 1])
    /\ IF has_callback
       THEN handle_dmr_event(emitted')
       ELSE UNCHANGED <<dvars, kvars>>
    /\ UNCHANGED <<log_exists, log_file, tail_pc, running, opened_at, svars, xvars>>

(***************************************************************************)
(* A callback that raises.  post_transmission opens the recorded file      *)
(* before its try block, so an open() that fails (permissions, too many    *)
(* open files, a file removed after exists()) leaves post_transmission and *)
(* handle_transmission_end as an OSError, before any request and before    *)
(* `del self.active_recordings[key]`.  handle_dmr_event has                *)
(* `except Exception`; what it does not catch reaches DMRMonitor.start,    *)
(* whose handler calls stop().                                             *)
(***************************************************************************)
OpenErrors == {"PermissionError", "FileNotFoundError"}

handle_dmr_event_lets_through(exc) ==
    exc \in {"KeyboardInterrupt", "SystemExit"} \cup OpenErrors

\* the exceptions that end the callback without being caught by it
handle_dmr_event_raises(exc) ==
    exc \in {"KeyboardInterrupt", "SystemExit"}

CallbackRaises ==
    /\ tail_pc = "tailing"
    /\ running
    /\ pc["fg"] = "idle"
    /\ cursor < Len(log_file)
    /\ ~mid_line
    /\ cursor' = cursor + 1
    /\ fed' = Append(fed, cursor + 1)
    /\ _process_line(cursor + 1, log_file[cursor + 1])
    /\ emitted' # <<>>
    /\ emitted'[1].event = "transmission_end"
    /\ RecordingKey(emitted'[1].data) \in active_recordings
    /\ \E exc \in OpenErrors :
          IF handle_dmr_event_raises(exc)
          THEN /\ running' = FALSE
               /\ stop_requested' = TRUE
               /\ tail_pc' = "stopped"
               /\ UNCHANGED error_log
          ELSE /\ error_log' = error_log \cup {[what |-> "handle_dmr_event", thread |-> "fg",
                                                 record |-> cursor + 1]}
               /\ UNCHANGED <<tail_pc, running, stop_requested>>
    /\ UNCHANGED <<log_exists, log_file, opened_at, svars>>
    /\ processes' = stop_recording(processes,
                                   RecordingId(recording_ids, RecordingKey(emitted'[1].data)))
    /\ UNCHANGED <<pending_write, mid_line, fragments, artifact_exists, yvars>>
    /\ UNCHANGED <<dvars, active_recordings, recording_calls, recording_ids>>

(***************************************************************************)
(* A writer that writes a line in two writes, and what readline gives      *)
(* then.  At the end of the file readline returns the text that is there,  *)
(* newline or not; the loop takes any non-empty text for a line.           *)
(***************************************************************************)
\* the writer has written the beginning of a line
WriterBeginLine ==
    /\ Len(log_file) < MaxLogLines
    /\ pending_write = NoLogLine
    /\ \E line \in LogLines : pending_write' = line
    /\ log_exists' = TRUE
    /\ UNCHANGED <<log_file, cursor, tail_pc, running, fed, opened_at, kvars>>
    /\ UNCHANGED <<mid_line, fragments, stop_requested, artifact_exists, error_log, yvars>>
    /\ UNCHANGED <<dvars, cvars, svars>>

\* the writer has written the rest of the line and its newline
WriterEndLine ==
    /\ pending_write # NoLogLine
    /\ log_file' = Append(log_file, pending_write)
    /\ pending_write' = NoLogLine
    /\ UNCHANGED <<log_exists, cursor, tail_pc, running, fed, opened_at, kvars>>
    /\ UNCHANGED <<mid_line, fragments, stop_requested, artifact_exists, error_log, yvars>>
    /\ UNCHANGED <<dvars, cvars, svars>>

\* a piece of a line matches the pattern of the line or no pattern
Pieces(line) == {line, LogLine("other")}

\* `line = f.readline()` gives the beginning of the line being written, or
\* the rest of a line whose beginning it gave before: _process_line(piece)
ReadFragment(has_callback) ==
    /\ tail_pc = "tailing"
    /\ running
    /\ pc["fg"] = "idle"
    /\ \/ /\ ~mid_line
          /\ cursor = Len(log_file)
          /\ pending_write # NoLogLine
          /\ mid_line' = TRUE
          /\ \E piece \in Pieces(pending_write) : _process_line(cursor + 1, piece)
          /\ UNCHANGED <<cursor, fed>>
       \/ /\ mid_line
          /\ cursor < Len(log_file)
          /\ mid_line' = FALSE
          /\ \E piece \in Pieces(log_file[cursor + 1]) : _process_line(cursor + 1, piece)
          /\ cursor' = cursor + 1
          /\ fed' = Append(fed, cursor + 1)
    /\ fragments' = fragments + 1
    /\ IF has_callback
       THEN handle_dmr_event(emitted')
       ELSE UNCHANGED <<dvars, kvars>>
    /\ UNCHANGED <<log_exists, log_file, tail_pc, running, opened_at, svars, pending_write, stop_requested,
                 artifact_exists, error_log, yvars>>

MonitorReadFragment == ReadFragment(FALSE)

\* a monitor without a callback, and the monitor of the collector
MonitorReadLine == ReadLine(FALSE)

CollectorReadLine == ReadLine(TRUE)

\* EasyDispatchCollector.start: the monitor starts once the queue processor
\* has been started
CollectorMonitorStart ==
    /\ pc["drain"] # "off"
    /\ DMRMonitorStart

\* the deliver calls the foreground makes: what main.py passes for a closed
\* transmission and for an emergency, and records without a time value
Inputs ==
    {<<"transmission", DateTimeVal(1500), AudioPath>>,
     <<"transmission", None, None>>,
     <<"emergency", DateTimeVal(1500), None>>,
     <<"sms", None, None>>,
     <<"gps", None, None>>}

DeliverAny ==
    /\ calls < MaxRecords
    /\ \E in \in Inputs : Deliver(in[1], in[2], in[3])

\* the deliver calls of a client that is restarted now and then
QueueInputs ==
    {<<"transmission", DateTimeVal(1500), AudioPath>>,
     <<"sms", None, None>>}

DeliverBeforeRestart ==
    /\ calls < MaxEnqueues
    /\ \E in \in QueueInputs : Deliver(in[1], in[2], in[3])

Running ==
    \/ DeliverAny
    \/ \E t \in Threads : MakeRequest(t)
    \/ \E t \in Threads : QueueForRetry(t)
    \/ \E t \in Threads : SaveGet(t)
    \/ \E t \in Threads : SaveRestore(t)
    \/ \E t \in Threads : SaveOpen(t)
    \/ \E t \in Threads : SaveWrite(t)
    \/ Return
    \/ start_queue_processor
    \/ DrainLoop
    \/ DrainGet
    \/ DrainEmpty
    \/ DrainExcept
    \/ DrainRequeue
    \/ DrainCooldown
    \/ DrainSuccess

Next == Running

Spec == Init /\ [][Next]_vars

\* deliver calls of a client whose queue processor was not started
NextCall ==
    \/ DeliverAny
    \/ MakeRequest("fg")
    \/ QueueForRetry("fg")
    \/ SaveGet("fg")
    \/ SaveRestore("fg")
    \/ SaveOpen("fg")
    \/ SaveWrite("fg")
    \/ Return

CallSpec == Init /\ [][NextCall]_vars

\* the monitor fed with log lines
NextLine ==
    \/ VoiceHeaderLine
    \/ VoiceEndLine
    \/ RssiLine
    \/ DataHeaderLine
    \/ EmergencyLine

\* the client is idle, with the default configuration
MonitorInit == Init /\ retry_attempts = MaxRetryAttempts

CorrelatorSpec == MonitorInit /\ [][NextLine]_vars

(***************************************************************************)
(* PATTERNS and the order _process_line tries them in.  A text of the log  *)
(* names slot 1 and is: with or without the `M: <timestamp>` in front of   *)
(* `DMR Slot 1,`; what the host says next (one of the three phrases the    *)
(* patterns spell out, or something else); and the words that follow, of   *)
(* which `RSSI: -60` and `Emergency` matter.  The patterns are searched,   *)
(* not anchored, so what follows a phrase does not keep it from matching.  *)
(***************************************************************************)
Phrases == {"received voice header from 7 to TG 1",
            "received voice end of transmission, 3.3s, BER: 0.3%",
            "received data header from 7 to TG 1", "something else"}

Texts == {[stamped |-> stamped, said |-> said, rest |-> rest] :
             stamped \in BOOLEAN, said \in Phrases, rest \in SUBSET {"RSSI: -60", "Emergency"}}

\* PATTERNS[pattern].search(text)
Matches(pattern, text) ==
    CASE pattern = "voice_header" ->
             text.stamped /\ text.said = "received voice header from 7 to TG 1"
      [] pattern = "voice_end" ->
             text.stamped /\ text.said = "received voice end of transmission, 3.3s, BER: 0.3%"
      [] pattern = "rssi" -> "RSSI: -60" \in text.rest
      [] pattern = "data_header" ->
             text.stamped /\ text.said = "received data header from 7 to TG 1"
      [] pattern = "emergency" -> text.stamped /\ "Emergency" \in text.rest
      [] OTHER -> FALSE

PatternOrderDataFirst == <<"voice_header", "voice_end", "data_header", "emergency", "rssi">>

\* the order of the `match = ...; if match: ...; return` blocks
PatternOrder == <<"voice_header", "voice_end", "rssi", "data_header", "emergency">>

\* the pattern whose handler _process_line calls: the first that matches
FirstMatch(text) ==
    LET m == {i \in DOMAIN PatternOrder : Matches(PatternOrder[i], text)}
    IN IF m = {} THEN "other" ELSE PatternOrder[Min(m)]

\* _process_line on a text
ProcessText ==
    /\ lines < MaxLines
    /\ \E text \in Texts :
          /\ _process_line(lines + 1, LogLine(FirstMatch(text)))
          /\ call' = [fn |-> "_process_line", args |-> <<text>>, out |-> None, done |-> TRUE]
    /\ UNCHANGED <<pending_write, mid_line, fragments, stop_requested, artifact_exists,
                   error_log, status, zvars>>
    /\ UNCHANGED <<dvars, tvars, kvars, svars>>

ClassifierSpec == MonitorInit /\ [][ProcessText]_vars

NextBusySlot ==
    \/ BusyVoiceHeader
    \/ BusyVoiceEnd
    \/ BusyRssi

BusySlotSpec == MonitorInit /\ [][NextBusySlot]_vars

NextRestart ==
    \/ DeliverBeforeRestart
    \/ MakeRequest("fg")
    \/ QueueForRetry("fg")
    \/ SaveGet("fg")
    \/ SaveRestore("fg")
    \/ SaveOpen("fg")
    \/ SaveWrite("fg")
    \/ Return
    \/ CrashRestart

RestartSpec == Init /\ [][NextRestart]_vars

(***************************************************************************)
(* Start and shutdown of the collector, main.py.  The command, cleanup and *)
(* status threads run `while not stop_event.is_set(): <body>;              *)
(* stop_event.wait(interval)` on the module-level stop_event; the monitor  *)
(* runs on the main thread and EasyDispatchCollector.stop runs there once  *)
(* DMRMonitor.start has returned.                                          *)
(***************************************************************************)
\* EasyDispatchCollector.start: the three threads are started after the
\* queue processor and before the monitor
StartLoops ==
    /\ pc["drain"] # "off"
    /\ tail_pc = "init"
    /\ \A l \in Loops : loop_pc[l] = "off"
    /\ loop_pc' = [l \in Loops |-> "check"]
    /\ UNCHANGED <<global_stop_event, stop_pc, tvars, kvars>>
    /\ UNCHANGED <<dvars, cvars, xvars>>

CollectorStartMonitor ==
    /\ \A l \in Loops : loop_pc[l] # "off"
    /\ CollectorMonitorStart

\* `while not stop_event.is_set():`
LoopCheck(l) ==
    /\ loop_pc[l] = "check"
    /\ loop_pc' = [loop_pc EXCEPT ![l] = IF global_stop_event THEN "exited" ELSE "work"]
    /\ UNCHANGED <<global_stop_event, stop_pc, tvars, kvars>>
    /\ UNCHANGED <<dvars, cvars, xvars>>

\* the body of the loop (its exceptions are caught), then
\* `stop_event.wait(interval)`, which returns when the event is set or the
\* interval is over
LoopBody(l) ==
    /\ \/ loop_pc[l] = "work" /\ loop_pc' = [loop_pc EXCEPT ![l] = "wait"]
       \/ loop_pc[l] = "wait" /\ loop_pc' = [loop_pc EXCEPT ![l] = "check"]
    /\ UNCHANGED <<global_stop_event, stop_pc, tvars, kvars>>
    /\ UNCHANGED <<dvars, cvars, xvars>>

\* signal_handler, registered for SIGINT and SIGTERM: `stop_event.set()`
signal_handler ==
    /\ ~global_stop_event
    /\ global_stop_event' = TRUE
    /\ UNCHANGED <<loop_pc, stop_pc, tvars, kvars>>
    /\ UNCHANGED <<dvars, cvars, xvars>>

\* EasyDispatchCollector.stop, entered from the `finally` of start once
\* dmr_monitor.start() has returned: `self.dmr_monitor.stop()`
CollectorStop ==
    /\ tail_pc = "stopped"
    /\ stop_pc = "none"
    /\ running' = FALSE
    /\ stop_requested' = TRUE
    /\ stop_pc' = "stop_queue"
    /\ UNCHANGED <<log_exists, log_file, cursor, tail_pc, fed, opened_at>>
    /\ UNCHANGED <<global_stop_event, loop_pc, kvars>>
    /\ UNCHANGED <<pending_write, mid_line, fragments, artifact_exists, error_log, yvars>>
    /\ UNCHANGED <<dvars, cvars>>

\* stop_queue_processor: `if self.queue_thread and self.queue_thread.is_alive():
\* self.stop_event.set()`
StopQueueSet ==
    /\ stop_pc = "stop_queue"
    /\ IF pc["drain"] \notin {"off", "exited"}
       THEN stop_event' = TRUE /\ stop_pc' = "join"
       ELSE stop_event' = stop_event /\ stop_pc' = "set_event"
    /\ UNCHANGED <<global_stop_event, loop_pc, tvars, kvars>>
    /\ UNCHANGED <<cvars, rvars, xvars>>
    /\ UNCHANGED <<retry_attempts, offline_queue, queue_file, endpoint, pc, frame, held,
                   items, temp_queue, now, calls, failures, acked, queued_ever,
                   before_attempt, interfered>>

\* the drain thread is in a wait that can last longer than the 5 seconds of
\* the join: get(timeout=10) on an empty queue, a request with its timeouts
\* and backoff sleeps, sleep(10), sleep(60)
JoinTimesOut ==
    \/ pc["drain"] = "get" /\ offline_queue = <<>>
    \/ pc["drain"] \in {"request", "except", "cooldown"}

\* `self.queue_thread.join(timeout=5)` returns: the thread is over, or the
\* 5 seconds are
StopQueueJoin ==
    /\ stop_pc = "join"
    /\ pc["drain"] = "exited" \/ JoinTimesOut
    /\ stop_pc' = "set_event"
    /\ UNCHANGED <<global_stop_event, loop_pc, tvars, kvars>>
    /\ UNCHANGED <<dvars, cvars, xvars>>

\* `stop_event.set()` at the end of EasyDispatchCollector.stop
CollectorStopSet ==
    /\ stop_pc = "set_event"
    /\ global_stop_event' = TRUE
    /\ stop_pc' = "stopped"
    /\ UNCHANGED <<loop_pc, tvars, kvars>>
    /\ UNCHANGED <<dvars, cvars, xvars>>

\* what the threads of the collector do.  Nothing here sets running to FALSE
\* while the monitor is in its loops: DMRMonitor.stop is called by
\* EasyDispatchCollector.stop and by the exception handlers of start only.
CollectorSteps ==
    \/ start_queue_processor
    \/ StartLoops
    \/ CollectorStartMonitor
    \/ MonitorWait
    \/ MonitorWaitSleep
    \/ MonitorPoll
    \/ \E l \in Loops : LoopCheck(l)
    \/ \E l \in Loops : LoopBody(l)
    \/ DrainLoop
    \/ DrainEmpty
    \/ CollectorStop
    \/ StopQueueSet
    \/ StopQueueJoin
    \/ CollectorStopSet

NextShutdown ==
    \/ CollectorSteps
    \/ LogCreated
    \/ MonitorError
    \/ signal_handler

\* every thread of the collector keeps being scheduled; a signal, the log
\* file and an I/O error come when they come
ShutdownSpec ==
    /\ MonitorInit
    /\ [][NextShutdown]_vars
    /\ WF_vars(start_queue_processor \/ StartLoops \/ CollectorStartMonitor)
    /\ WF_vars(MonitorWait \/ MonitorWaitSleep \/ MonitorPoll)
    /\ \A l \in Loops : WF_vars(LoopCheck(l) \/ LoopBody(l))
    /\ WF_vars(DrainLoop \/ DrainEmpty)
    /\ WF_vars(CollectorStop \/ StopQueueSet \/ StopQueueJoin \/ CollectorStopSet)

(***************************************************************************)
(* Recorded audio files and their deletion (AudioCapture.cleanup_old_files *)
(* or anything else that removes files from the recording directory).      *)
(***************************************************************************)
\* `filepath.unlink()`
ArtifactDeleted ==
    /\ artifact_exists
    /\ artifact_exists' = FALSE
    /\ UNCHANGED <<pending_write, mid_line, fragments, stop_requested, error_log, yvars>>
    /\ UNCHANGED <<dvars, cvars, tvars, kvars, svars>>

\* deliver calls for transmissions that come with a recorded audio file
ArtifactInputs ==
    {<<"transmission", DateTimeVal(1500), AudioPath>>,
     <<"transmission", None, AudioPath>>}

DeliverWithArtifact ==
    /\ calls < MaxRecords
    /\ artifact_exists
    /\ \E in \in ArtifactInputs : Deliver(in[1], in[2], in[3])

\* the delivery client and its drain thread, with audio files that may be
\* deleted while their transmission is queued
NextArtifact ==
    \/ DeliverWithArtifact
    \/ ArtifactDeleted
    \/ \E t \in Threads : MakeRequest(t)
    \/ \E t \in Threads : QueueForRetry(t)
    \/ \E t \in Threads : SaveGet(t)
    \/ \E t \in Threads : SaveRestore(t)
    \/ \E t \in Threads : SaveOpen(t)
    \/ \E t \in Threads : SaveWrite(t)
    \/ Return
    \/ start_queue_processor
    \/ DrainLoop
    \/ DrainGet
    \/ DrainEmpty
    \/ DrainExcept
    \/ DrainRequeue
    \/ DrainCooldown
    \/ DrainSuccess

ArtifactSpec == Init /\ [][NextArtifact]_vars

(***************************************************************************)
(* The delivery client with several records in its queue, and the same on  *)
(* a disk that refuses writes now and then.                                *)
(***************************************************************************)
\* deliver calls whose payload the drain thread can project again
StorableInputs ==
    {<<"transmission", None, None>>,
     <<"sms", None, None>>}

DeliverStorable ==
    /\ calls < MaxEnqueues
    /\ \E in \in StorableInputs : Deliver(in[1], in[2], in[3])

NextQueue ==
    \/ DeliverStorable
    \/ \E t \in Threads : MakeRequest(t)
    \/ \E t \in Threads : QueueForRetry(t)
    \/ \E t \in Threads : SaveGet(t)
    \/ \E t \in Threads : SaveRestore(t)
    \/ \E t \in Threads : SaveOpen(t)
    \/ \E t \in Threads : SaveWrite(t)
    \/ Return
    \/ start_queue_processor
    \/ DrainLoop
    \/ DrainGet
    \/ DrainEmpty
    \/ DrainRequeue
    \/ DrainCooldown
    \/ DrainSuccess

QueueSpec == Init /\ [][NextQueue]_vars

NextFlushFault ==
    \/ NextQueue
    \/ \E t \in Threads : SaveFails(t)

FlushFaultSpec == Init /\ [][NextFlushFault]_vars

(***************************************************************************)
(* The collector with everything that can fail while a record is handled:  *)
(* the callback, the delivery, the flush of the queue file and the drain   *)
(* thread's attempt.  The log holds voice lines only.                      *)
(***************************************************************************)
VoiceKinds == {"voice_header", "voice_end"}

VoiceWriterAppend ==
    /\ Len(log_file) < MaxLogLines
    /\ pending_write = NoLogLine
    /\ \E kind \in VoiceKinds : log_file' = Append(log_file, LogLine(kind))
    /\ log_exists' = TRUE
    /\ UNCHANGED <<cursor, tail_pc, running, fed, opened_at, kvars>>
    /\ UNCHANGED <<dvars, cvars, svars, xvars>>

NextFault ==
    \/ LogCreated
    \/ VoiceWriterAppend
    \/ start_queue_processor
    \/ CollectorMonitorStart
    \/ MonitorWait
    \/ MonitorWaitSleep
    \/ MonitorPoll
    \/ CollectorReadLine
    \/ CallbackRaises
    \/ RadioStatus
    \/ MakeRequest("fg")
    \/ QueueForRetry("fg")
    \/ SaveGet("fg")
    \/ SaveRestore("fg")
    \/ SaveOpen("fg")
    \/ SaveWrite("fg")
    \/ SaveFails("fg")
    \/ Return
    \/ DrainLoop
    \/ DrainGet
    \/ DrainEmpty
    \/ DrainExcept

FaultSpec == MonitorInit /\ [][NextFault]_vars

\* a monitor that tails the log on its own
NextTail ==
    \/ WriterAppend
    \/ DMRMonitorStart
    \/ MonitorWait
    \/ MonitorWaitSleep
    \/ MonitorPoll
    \/ MonitorReadLine
    \/ DMRMonitorStop
    \/ MonitorExit

TailerSpec == MonitorInit /\ [][NextTail]_vars

\* the same monitor on a log whose writer may be in the middle of a line
NextRacingWriter ==
    \/ NextTail
    \/ WriterBeginLine
    \/ WriterEndLine
    \/ MonitorReadFragment

RacingWriterSpec == MonitorInit /\ [][NextRacingWriter]_vars

\* the collector: the log, its monitor, the callbacks and the delivery client.
\* Every record the callbacks hand over has a time value, so every item the
\* drain thread takes raises in _format_datetime and ends in DrainExcept.
NextPipeline ==
    \/ WriterAppend
    \/ start_queue_processor
    \/ CollectorMonitorStart
    \/ MonitorWait
    \/ MonitorWaitSleep
    \/ MonitorPoll
    \/ CollectorReadLine
    \/ RadioStatus
    \/ MakeRequest("fg")
    \/ QueueForRetry("fg")
    \/ SaveGet("fg")
    \/ SaveRestore("fg")
    \/ SaveOpen("fg")
    \/ SaveWrite("fg")
    \/ Return
    \/ DrainLoop
    \/ DrainGet
    \/ DrainEmpty
    \/ DrainExcept

PipelineSpec == MonitorInit /\ [][NextPipeline]_vars

NextRecovering ==
    \/ Running
    \/ EndpointRecovers

\* the drain thread and the callers keep being scheduled, and the remote
\* service eventually becomes and stays available
FairSpec ==
    /\ Init
    /\ [][NextRecovering]_vars
    /\ WF_vars(Running)
    /\ WF_vars(EndpointRecovers)

(***************************************************************************)
(* Functions and methods called on their own: the arguments are drawn at   *)
(* the start, the one step is the call.                                    *)
(***************************************************************************)
Called(fn, argsets) ==
    /\ ClientInit
    /\ retry_attempts = MaxRetryAttempts
    /\ call \in {[fn |-> fn, args |-> a, out |-> None, done |-> FALSE] : a \in argsets}

Returns(fn, out) ==
    /\ call.fn = fn
    /\ ~call.done
    /\ call' = [call EXCEPT !.out = out, !.done = TRUE]
    /\ UNCHANGED <<pending_write, mid_line, fragments, stop_requested, artifact_exists,
                   error_log, status, zvars>>
    /\ UNCHANGED <<dvars, cvars, tvars, kvars, svars>>

FormatInit == Called("_format_datetime", {<<dt>> : dt \in DateTimes \cup {None}})

FormatDatetime == Returns("_format_datetime", _format_datetime(call.args[1]))

FormatSpec == FormatInit /\ [][FormatDatetime]_vars

(***************************************************************************)
(* DisplayManager: the status dictionary and the methods that write it.    *)
(* Each method stamps last_update with datetime.now() (here the number of  *)
(* the call) and then calls _refresh_display, which reads the status and   *)
(* draws it, and catches what the drawing raises.  A text is a sequence of *)
(* characters.                                                             *)
(***************************************************************************)
DmrDataLimit == 60

Text(n) == [i \in 1..n |-> "x"]
DataStrings == {Text(0), Text(21), Text(DmrDataLimit), Text(DmrDataLimit + 1)}

\* `data_string[:60]`
Truncate(data_string) ==
    IF Len(data_string) <= DmrDataLimit THEN data_string
    ELSE SubSeq(data_string, 1, DmrDataLimit)

\* slot numbers a caller may pass: the two slots and a number that is none
SlotNumbers == {1, 2, 3}

SetSlotRxOfBoth(st, slot, active) ==
    [st EXCEPT !.slot1_rx = active, !.slot2_rx = active]

\* `if slot == 1: ... elif slot == 2: ...`
SetSlotRx(st, slot, active) ==
    IF slot = 1 THEN [st EXCEPT !.slot1_rx = active]
    ELSE IF slot = 2 THEN [st EXCEPT !.slot2_rx = active]
    ELSE st

Stamp(st) == [st EXCEPT !.last_update = DateTimeVal(1000 * (call.out[2] + 1))]

\* a method of the display manager ran: call holds its name and arguments,
\* and counts the calls made so far
DisplayCall(fn, args) ==
    /\ call.out[2] < MaxDisplayCalls
    /\ call' = [fn |-> fn, args |-> args, out |-> IntVal(call.out[2] + 1), done |-> TRUE]
    /\ UNCHANGED <<pending_write, mid_line, fragments, stop_requested, artifact_exists,
                   error_log, zvars>>
    /\ UNCHANGED <<dvars, cvars, tvars, kvars, svars>>

update_slot_status(slot, active) ==
    /\ DisplayCall("update_slot_status", <<slot, active>>)
    /\ status' = Stamp(SetSlotRx(status, slot, active))

update_db_status(connected) ==
    /\ DisplayCall("update_db_status", <<connected>>)
    /\ status' = Stamp([status EXCEPT !.db_connected = connected])

update_api_status(connected) ==
    /\ DisplayCall("update_api_status", <<connected>>)
    /\ status' = Stamp([status EXCEPT !.api_connected = connected])

show_dmr_data(data_string) ==
    /\ DisplayCall("show_dmr_data", <<data_string>>)
    /\ status' = Stamp([status EXCEPT !.last_dmr_data = Truncate(data_string)])

\* `return self.status.copy()`; the copy is kept in args
get_status ==
    /\ DisplayCall("get_status", <<status>>)
    /\ status' = status

UpdateSlotStatus == \E slot \in SlotNumbers, active \in BOOLEAN : update_slot_status(slot, active)
UpdateDbStatus == \E connected \in BOOLEAN : update_db_status(connected)
UpdateApiStatus == \E connected \in BOOLEAN : update_api_status(connected)
ShowDmrData == \E data_string \in DataStrings : show_dmr_data(data_string)

NextDisplay ==
    \/ UpdateSlotStatus
    \/ UpdateDbStatus
    \/ UpdateApiStatus
    \/ ShowDmrData
    \/ get_status

DisplayInit == ClientInit /\ retry_attempts = MaxRetryAttempts /\ call = [NoCall EXCEPT !.out = IntVal(0)]

DisplaySpec == DisplayInit /\ [][NextDisplay]_vars

(***************************************************************************)
(* The Thread objects of the queue processor.  start_queue_processor and   *)
(* stop_queue_processor are called on the main thread (start() and stop()  *)
(* of the collector), any number of times in any order; a thread that runs *)
(* _process_offline_queue leaves its loop once it sees stop_event set.     *)
(***************************************************************************)
MaxThreads == 9

\* the threads that have not ended
alive == {thread \in DOMAIN thread_pc : thread_pc[thread] # "ended"}

is_alive_or_stopping(thread) == thread \in alive /\ ~stop_event

\* `self.queue_thread.is_alive()`
is_alive(thread) == thread \in alive

ProcessorFrame ==
    /\ UNCHANGED <<pending_write, mid_line, fragments, stop_requested, artifact_exists,
                   error_log, call, status, commands, polled, reports>>
    /\ UNCHANGED <<cvars, tvars, kvars, svars>>
    /\ UNCHANGED <<retry_attempts, offline_queue, queue_file, file_valid, restarts, endpoint,
                   pc, frame, held, items, temp_queue, now, calls, failures, acked,
                   queued_ever, before_attempt, interfered>>

\* `if self.queue_thread is None or not self.queue_thread.is_alive():`
StartCheck ==
    /\ main_pc = "out"
    /\ spawned < MaxThreads
    /\ main_pc' = IF queue_thread = None \/ ~is_alive(queue_thread[2]) THEN "start" ELSE "out"
    /\ UNCHANGED <<queue_thread, spawned, thread_pc, stop_event>>
    /\ ProcessorFrame

\* `self.stop_event.clear()`, `self.queue_thread = Thread(...)`,
\* `self.queue_thread.start()`
StartThread ==
    /\ main_pc = "start"
    /\ stop_event' = FALSE
    /\ spawned' = spawned + 1
    /\ queue_thread' = IntVal(spawned + 1)
    /\ thread_pc' = Append(thread_pc, "loop")
    /\ main_pc' = "out"
    /\ ProcessorFrame

\* stop_queue_processor: `if self.queue_thread and self.queue_thread.is_alive():
\* self.stop_event.set()`
StopSet ==
    /\ main_pc = "out"
    /\ queue_thread # None
    /\ is_alive(queue_thread[2])
    /\ stop_event' = TRUE
    /\ main_pc' = "join"
    /\ UNCHANGED <<queue_thread, spawned, thread_pc>>
    /\ ProcessorFrame

\* `self.queue_thread.join(timeout=5)` returns: the thread has ended, or
\* five seconds have passed
JoinReturns ==
    /\ main_pc = "join"
    /\ main_pc' = "out"
    /\ UNCHANGED <<queue_thread, spawned, thread_pc, stop_event>>
    /\ ProcessorFrame

\* a thread in _process_offline_queue: `while not self.stop_event.is_set()`,
\* then the get and the attempt, then on an empty queue or a failed attempt
\* the sleep
ThreadStep ==
    /\ \E thread \in alive :
          \E at \in CASE thread_pc[thread] = "loop" -> IF stop_event THEN {"ended"} ELSE {"get"}
                     [] thread_pc[thread] = "get" -> {"loop", "sleep"}
                     [] OTHER -> {"loop"} :
             thread_pc' = [thread_pc EXCEPT ![thread] = at]
    /\ UNCHANGED <<queue_thread, spawned, main_pc, stop_event>>
    /\ ProcessorFrame

NextProcessor ==
    \/ StartCheck
    \/ StartThread
    \/ StopSet
    \/ JoinReturns
    \/ ThreadStep

ProcessorInit == ClientInit /\ retry_attempts = MaxRetryAttempts /\ call = NoCall

ProcessorSpec == ProcessorInit /\ [][NextProcessor]_vars

(***************************************************************************)
(* The command polling loop of main.py and CommandHandler.execute_command. *)
(* A command is the dictionary the backend returned: its id, its type and  *)
(* the fields the handlers read.  The external tool a handler runs is the  *)
(* environment: it exits with 0, exits with another code, is not installed *)
(* (FileNotFoundError), runs into the timeout (TimeoutExpired) or cannot   *)
(* be started for another reason (any other exception).                    *)
(***************************************************************************)
MaxCommands == 2

Command(command_type, target_radio_id, target_talkgroup_id, message) ==
    [id |-> 0, command_type |-> command_type, target_radio_id |-> target_radio_id,
     target_talkgroup_id |-> target_talkgroup_id, message |-> message]

CommandKinds ==
    {Command("sms", IntVal(7), None, "text"), Command("sms", None, IntVal(9), "text"),
     Command("sms", IntVal(7), None, ""), Command("sms", None, None, "text"),
     Command("call_alert", IntVal(7), None, ""), Command("call_alert", None, None, ""),
     Command("gps_request", IntVal(7), None, ""), Command("radio_check", IntVal(7), None, ""),
     Command("radio_check", None, None, ""),
     Command("remote_monitor", IntVal(7), None, ""), Command("reboot", IntVal(7), None, "")}

ToolOutcomes == {"exit_0", "exit_1", "not_installed", "timeout", "os_error"}

\* the lists the backend can return: the ids are distinct
CommandLists ==
    UNION {{[i \in 1..n |-> [kinds[i] EXCEPT !.id = i]] : kinds \in [1..n -> CommandKinds]}
           : n \in 0..MaxCommands}

\* `return success, error_message`
Returned(success, error_message) == <<"returned", success, error_message>>

RunToolStrict(tool, what) ==
    CASE tool = "exit_0" -> Returned(TRUE, None)
      [] tool = "exit_1" -> Returned(FALSE, StrVal(<<what, "failed">>))
      [] tool = "not_installed" -> Returned(FALSE, StrVal(<<what, "not available">>))
      [] tool = "timeout" -> Returned(FALSE, StrVal(<<what, "timeout">>))
      [] OTHER -> Raised

\* subprocess.run and the branches on its result; an exception the handler
\* does not catch leaves it
RunTool(tool, what) ==
    CASE tool = "exit_0" -> Returned(TRUE, None)
      [] tool = "exit_1" -> Returned(FALSE, StrVal(<<what, "failed">>))
      [] tool = "not_installed" -> Returned(TRUE, None)
      [] tool = "timeout" -> Returned(FALSE, StrVal(<<what, "timeout">>))
      [] OTHER -> Raised

_send_sms(command, tool) ==
    IF command.message = "" THEN Returned(FALSE, StrVal("No message provided"))
    ELSE IF command.target_radio_id = None /\ command.target_talkgroup_id = None
         THEN Returned(FALSE, StrVal("No target specified"))
         ELSE RunTool(tool, "SMS send")

_send_call_alert(command, tool) ==
    IF command.target_radio_id = None THEN Returned(FALSE, StrVal("No target radio specified"))
    ELSE RunTool(tool, "Call alert")

_request_gps(command, tool) ==
    IF command.target_radio_id = None THEN Returned(FALSE, StrVal("No target radio specified"))
    ELSE RunTool(tool, "GPS request")

_radio_check(command, tool) ==
    IF command.target_radio_id = None THEN Returned(FALSE, StrVal("No target radio specified"))
    ELSE _send_call_alert(command, tool)

_remote_monitor(command, tool) ==
    IF command.target_radio_id = None THEN Returned(FALSE, StrVal("No target radio specified"))
    ELSE RunTool(tool, "Remote monitor")

\* returns (success, error_message)
execute_command(command, tool) ==
    LET command_type == command.command_type
        result ==
            CASE command_type = "sms" -> _send_sms(command, tool)
              [] command_type = "call_alert" -> _send_call_alert(command, tool)
              [] command_type = "gps_request" -> _request_gps(command, tool)
              [] command_type = "radio_check" -> _radio_check(command, tool)
              [] command_type = "remote_monitor" -> _remote_monitor(command, tool)
              [] OTHER -> Returned(FALSE, StrVal(<<"Unknown command type", command_type>>))
    IN IF result[1] = "raised" THEN Returned(FALSE, StrVal("Command execution failed")) ELSE result

CommandFrame ==
    /\ UNCHANGED <<pending_write, mid_line, fragments, stop_requested, artifact_exists,
                   error_log, call, status, pvars>>
    /\ UNCHANGED <<dvars, cvars, tvars, kvars, svars>>

\* `commands = self.api_client.get_pending_commands()`: the list of the
\* response, or [] when the request failed.  The loop keeps nothing from
\* one poll to the next, so one poll that returned commands is followed.
PollCommands ==
    /\ commands = <<>>
    /\ polled = <<>>
    /\ \E list \in CommandLists :
          /\ commands' = list
          /\ polled' = list
    /\ reports' = <<>>
    /\ CommandFrame

\* one round of `for command in commands`: execute_command, then
\* post_command_result with the status; the tool's outcome is kept with the
\* report
RunCommand ==
    /\ commands # <<>>
    /\ \E tool \in ToolOutcomes :
          LET command == Head(commands)
              result == execute_command(command, tool)
              success == result[2]
              error_message == result[3]
              report_status == IF success THEN "completed" ELSE "failed"
          IN reports' = Append(reports, [command_id |-> command.id, status |-> report_status,
                                         error_message |-> error_message, tool |-> tool])
    /\ commands' = Tail(commands)
    /\ polled' = polled
    /\ CommandFrame

NextCommand == PollCommands \/ RunCommand

CommandInit == ClientInit /\ retry_attempts = MaxRetryAttempts /\ call = NoCall

CommandSpec == CommandInit /\ [][NextCommand]_vars

(***************************************************************************)
(* DataParser.parse_gps on text that holds two numbers separated by a      *)
(* comma.  A number is its sign, the digits before the point and the       *)
(* digits after it (none when it is written without a point).  The APRS    *)
(* patterns need the letters N/S and E/W and do not match such a text, so  *)
(* the call comes to `re.search(r'(-?\d+\.\d+),\s*(-?\d+\.\d+)', text)`.  *)
(* Floats are kept in tenths.                                              *)
(***************************************************************************)
Number(sign, whole, fraction) == [sign |-> sign, whole |-> whole, fraction |-> fraction]

LatitudeTexts ==
    {Number("-", <<9, 0>>, <<1>>), Number("-", <<9, 0>>, <<0>>), Number("-", <<4, 5>>, <<5>>),
     Number("", <<0>>, <<0>>), Number("", <<3, 7>>, <<7>>), Number("", <<9, 0>>, <<0>>),
     Number("", <<9, 0>>, <<1>>), Number("", <<9, 5>>, <<0>>), Number("", <<3, 7>>, <<>>)}

LongitudeTexts ==
    {Number("-", <<1, 8, 0>>, <<1>>), Number("-", <<1, 8, 0>>, <<0>>),
     Number("-", <<1, 2, 2>>, <<4>>), Number("", <<1, 0>>, <<0>>),
     Number("", <<1, 8, 0>>, <<0>>), Number("", <<1, 8, 0>>, <<1>>),
     Number("-", <<1, 2, 2>>, <<>>)}

\* `(-?\d+\.\d+)` matches a number written with a point
IsDecimal(number) == number.fraction # <<>>

\* float(match.group(n))
SignedFloat(number) ==
    LET f == float(<<number.whole, number.fraction>>) IN
    IF number.sign = "-" THEN FloatVal(0 - f[2]) ELSE f

InRangeExclusive(latitude, longitude) ==
    /\ 0 - 900 < latitude[2] /\ latitude[2] < 900
    /\ 0 - 1800 < longitude[2] /\ longitude[2] < 1800

\* `-90 <= latitude <= 90 and -180 <= longitude <= 180`
InRange(latitude, longitude) ==
    /\ 0 - 900 <= latitude[2] /\ latitude[2] <= 900
    /\ 0 - 1800 <= longitude[2] /\ longitude[2] <= 1800

Dict(d) == <<"dict", d>>

parse_gps(lat, lon) ==
    IF ~(IsDecimal(lat) /\ IsDecimal(lon)) THEN None
    ELSE LET latitude == SignedFloat(lat)
             longitude == SignedFloat(lon) IN
         IF InRange(latitude, longitude)
         THEN Dict([latitude |-> latitude, longitude |-> longitude, altitude |-> None,
                    timestamp |-> DateTimeVal(WallClock(0))])
         ELSE None

GpsInit == Called("parse_gps", LatitudeTexts \X LongitudeTexts)

ParseGps == Returns("parse_gps", parse_gps(call.args[1], call.args[2]))

GpsSpec == GpsInit /\ [][ParseGps]_vars

(***************************************************************************)
(* Properties of the Delivery Client and its drain loop.                   *)
(***************************************************************************)
RecordIds == 1..MaxRecords

\* the items a reader of the queue file gets
FileItems == JsonLoad(queue_file)
ItemId(item) == RecordId(item.type, item.data)
SaveLabels == {"save_get", "save_restore", "save_open", "save_write"}

\* the items the queue holds, counting those a running _save_offline_queue
\* has moved to its temp_queue for a moment
Resident == Range(offline_queue) \cup Range(temp_queue["fg"]) \cup Range(temp_queue["drain"])

\* the drain loop has dequeued an item and its attempt is still running
DrainAttempting ==
    /\ held # NoItem
    /\ \/ pc["drain"] \in {"request", "enqueue", "returned"}
       \/ pc["drain"] \in SaveLabels /\ frame["drain"].result = "pending"

\* the drain loop's attempt with the dequeued item is over
DrainAttemptOver ==
    \/ pc["drain"] \in {"except", "cooldown"}
    \/ pc["drain"] \in SaveLabels /\ frame["drain"].result = "True"

NoQueuedRecordDropped ==
    \A r \in queued_ever :
        \/ r \in acked
        \/ \E item \in Resident : ItemId(item) = r
        \/ DrainAttempting /\ ItemId(held) = r

\* C1: at-least-once delivery.  Every record whose deliver call ended in
\* 'queued' is eventually acknowledged by the remote service once the
\* endpoint has become and stays available and the drain loop keeps running,
\* and no queued record is dropped without having been delivered.
C1_AtLeastOnce ==
    /\ []NoQueuedRecordDropped
    /\ \A r \in RecordIds : (r \in queued_ever) ~> (r \in acked)

\* C2: no loss in the drain loop.  Once the attempt with a dequeued item has
\* finished, by returning or by raising, the item has been delivered
\* successfully or is in the in-memory queue again.
C2_NoLossInDrain ==
    DrainAttemptOver =>
        \/ frame["drain"].result = "True" /\ ItemId(held) \in acked
        \/ held \in Resident

\* C3: no duplication in the drain loop.  After a failed drain attempt the
\* dequeued item is back in the queue exactly once: with no foreground
\* enqueue in between, the multiset of queued items equals the one before
\* the attempt.
C3_NoDuplicationInDrain ==
    (pc["drain"] = "cooldown" /\ ~interfered) =>
        SeqToBag(offline_queue) = SeqToBag(before_attempt)

\* C4: authentication failure is fatal.  A deliver call whose attempt was
\* answered with 401 makes no further attempt and does not add the record to
\* the offline queue.
C4_AuthFailureNotQueued ==
    \A t \in Threads :
        frame[t].last = "unauthorized" =>
            /\ pc[t] # "request"
            /\ pc[t] # "enqueue"
            /\ frame[t].puts = 0

\* the sleeps 1, 2, 4, ... between n attempts
Doubling(n) == [i \in 1..(n - 1) |-> 2 ^ (i - 1)]

\* C5: against a target that always fails transiently, one deliver call makes
\* exactly retry_attempts attempts, sleeps 1, 2, 4, ... between consecutive
\* attempts and not after the last one, and only then enqueues the record,
\* exactly once.
C5_RetryBackoffThenQueueOnce ==
    \A t \in Threads :
        /\ (frame[t].last # "none" /\ frame[t].only_transient) =>
              /\ frame[t].attempts = retry_attempts
              /\ frame[t].slept = Doubling(retry_attempts)
              /\ frame[t].result # "True"
              /\ pc[t] \in {"enqueue", "save_get"}
              /\ frame[t].puts = (IF pc[t] = "enqueue" THEN 0 ELSE 1)
        /\ (pc[t] = "returned" /\ frame[t].result = "False") => frame[t].puts = 1

C5_Witness ==
    /\ retry_attempts = 3
    /\ pc["fg"] = "save_get"
    /\ frame["fg"].last = "timeout"
    /\ frame["fg"].only_transient
    /\ frame["fg"].slept = <<1, 2>>
    /\ frame["fg"].puts = 1

\* C6: a 200 response whose success flag is false or missing is handled as a
\* transient failure: the deliver call goes on to the configured number of
\* attempts before it queues the record.
C6_FlagFalseRetried ==
    \A t \in Threads :
        frame[t].last = "flag_false" => frame[t].attempts = retry_attempts

C8_OneOpenPerKey ==
    /\ \A i, j \in DOMAIN current_transmissions :
          current_transmissions[i].key = current_transmissions[j].key => i = j
    /\ \A i \in DOMAIN current_transmissions :
          LET e == current_transmissions[i] IN
          /\ e.value.slot = IntVal(e.key[1])
          /\ e.value.radio_id = IntVal(e.key[2])

C8_Witness ==
    /\ Len(current_transmissions) = 2
    /\ current_transmissions[1].value.slot = current_transmissions[2].value.slot
    /\ abandoned # {}

\* the VoiceEnd processed last closed the transmission of `start`
EmitsClosed(start) ==
    /\ Len(emitted) = 1
    /\ emitted[1].event = "transmission_end"
    /\ emitted[1].data.radio_id = start.radio_id
    /\ emitted[1].data.destination_type = start.destination_type
    /\ emitted[1].data.destination_id = start.destination_id
    /\ emitted[1].data.start_time = start.start_time
    /\ emitted[1].data.end_time = last_line.end_time
    /\ emitted[1].data.duration = last_line.duration
    /\ emitted[1].data.ber = last_line.ber

\* C9: whatever preceded, a VoiceEnd that follows a VoiceStart on its slot
\* with no VoiceStart on that slot in between emits exactly one Transmission,
\* with the radio_id, destination and start_time of that VoiceStart and the
\* end_time, duration and ber of the VoiceEnd.
C9_EndClosesLatestStart ==
    (last_line.kind = "voice_end" /\ expected # NoPending) => EmitsClosed(expected.tx)

\* C10: when a VoiceStart is followed by a second VoiceStart for the same key
\* before any VoiceEnd, the first Transmission is never emitted, and the next
\* VoiceEnd on that slot emits only the second one.
C10_SecondStartWins ==
    /\ \A k \in DOMAIN emitted :
          emitted[k].event = "transmission_end" =>
              emitted[k].data.start_time \notin abandoned
    /\ (last_line.kind = "voice_end" /\ expected.second) => EmitsClosed(expected.tx)

\* C11: a VoiceEnd on a slot that has no open Transmission emits no record
\* and leaves the live map unchanged (the handler has no raising path: int()
\* and float() are applied to groups of digits only).
C11_UnmatchedEndIgnored ==
    [][(/\ lines' = lines + 1
        /\ last_line'.kind = "voice_end"
        /\ \A i \in DOMAIN current_transmissions :
              current_transmissions[i].value.slot # IntVal(last_line'.slot))
       => (emitted' = <<>> /\ current_transmissions' = current_transmissions)]_vars

C11_Witness ==
    /\ last_line.kind = "voice_end"
    /\ emitted = <<>>
    /\ current_transmissions # <<>>
    /\ \A i \in DOMAIN current_transmissions :
          current_transmissions[i].value.slot # IntVal(last_line.slot)

\* C12: the rssi of an emitted Transmission is the value of the last
\* SignalSample for its slot that arrived between its VoiceStart and its
\* VoiceEnd, none if there was no such sample; a sample that arrives when no
\* Transmission is open on its slot has no effect.
C12_LastSampleInWindow ==
    [][/\ (/\ lines' = lines + 1
           /\ last_line'.kind = "voice_end"
           /\ emitted' # <<>>)
          => emitted'[1].data.rssi =
                 window_sample[<<emitted'[1].data.slot[2], emitted'[1].data.radio_id[2]>>]
       /\ (/\ lines' = lines + 1
           /\ last_line'.kind = "rssi"
           /\ \A i \in DOMAIN current_transmissions :
                 current_transmissions[i].value.slot # IntVal(last_line'.slot))
          => (emitted' = <<>> /\ current_transmissions' = current_transmissions)]_vars

(***************************************************************************)
(* Properties of the queue file.                                           *)
(***************************************************************************)
FgQuiet == pc["fg"] \in {"idle", "returned"}

\* C13: every operation that mutates the offline queue has flushed the full
\* current item set by the time it returns: the queue file equals the
\* in-memory queue after an enqueue that follows a failed delivery, after the
\* drain loop's dequeue (the dequeued item still counts until its attempt is
\* over) and after the drain loop's re-enqueue of a failed item, each taken
\* with no other thread working on the queue at the same time.
C13_FlushedAfterMutation ==
    FgQuiet =>
        /\ (pc["fg"] = "returned" /\ frame["fg"].result = "False" /\ pc["drain"] = "off")
              => FileItems = offline_queue
        /\ (pc["drain"] = "request" /\ ~interfered)
              => SeqToBag(FileItems) = SeqToBag(<<held>> \o offline_queue)
        /\ (pc["drain"] = "cooldown" /\ ~interfered)
              => FileItems = offline_queue

\* the records accepted for queueing and not delivered yet: those of the
\* items in the queue and the one of the item the drain loop is attempting
Undelivered ==
    {ItemId(item) : item \in Resident} \cup
    (IF DrainAttempting THEN {ItemId(held)} ELSE {})

\* C14: with the foreground caller and the drain loop running concurrently,
\* every flush of the queue file contains every item accepted for queueing
\* and not yet delivered, the one the drain loop is attempting included.
C14_FlushCompleteUnderConcurrency ==
    [][(\E t \in Threads : pc[t] = "save_write" /\ pc'[t] # "save_write")
       => \A r \in Undelivered' : \E item \in Range(FileItems') : ItemId(item) = r]_vars

\* the queue with what a running _save_offline_queue of the caller holds
QueueOfCaller == temp_queue["fg"] \o offline_queue

\* C15: crash consistency of the queue file.  Whenever the process dies,
\* during or right after a flush, the file is a complete snapshot, so after
\* the reload every record whose deliver call had returned 'queued' is in
\* the queue exactly once.
C15_CrashConsistent ==
    \A r \in queued_ever \ acked :
        Cardinality({i \in DOMAIN QueueOfCaller : ItemId(QueueOfCaller[i]) = r}) = 1

\* C16: round trip.  After any sequence of enqueues, a new client built from
\* the queue file has the same items in the same order in its queue as the
\* client before the restart.
C16_ReloadRoundTrip ==
    [][(restarts' = restarts + 1 /\ pc["fg"] \in {"idle", "returned"})
       => offline_queue' = offline_queue]_vars

C16_Witness ==
    /\ restarts = 1
    /\ calls = 2
    /\ Len(offline_queue) = 2
    /\ offline_queue[1].type # offline_queue[2].type
    /\ offline_queue[1].audio_file # None \/ offline_queue[2].audio_file # None

(***************************************************************************)
(* Properties of the log tailer and of the collector around it.            *)
(***************************************************************************)
\* C20: the lines handed to _process_line are exactly the lines appended
\* after the tailer opened the file, one after the other: none of the lines
\* the file had at that time, none twice, none skipped, none out of order.
C20_NoHistoryReplay ==
    \A i \in DOMAIN fed : fed[i] = opened_at + i

C20_Witness ==
    /\ opened_at >= 1
    /\ Len(fed) >= 2
    /\ lines = Len(fed)

DeliveryInProgress == pc["fg"] \in {"request", "status_request"}

LineWaiting == tail_pc = "tailing" /\ running /\ cursor < Len(log_file)

\* C17: while a deliver call started for an earlier line is still inside its
\* request (waiting for the network or sleeping between attempts), the
\* tailer can read the next line of the log that is waiting to be read.
C17_DeliveryDoesNotBlockTailer ==
    (DeliveryInProgress /\ LineWaiting) => ENABLED CollectorReadLine

\* C21: everything the read loop hands to _process_line is one whole line
\* of the log: never the beginning of a line the writer has not finished,
\* never the rest of such a line.
C21_OnlyWholeLinesClassified ==
    fragments = 0

\* C22: once DMRMonitor.stop has been called, whatever the monitor was doing
\* and also if it had not been started yet, the monitor does not open the
\* file any more and hands no further line to _process_line.
C22_NothingAfterStop ==
    [][stop_requested =>
          /\ fed' = fed
          /\ tail_pc' = "tailing" => tail_pc \in {"tailing", "poll_sleep"}]_vars

Keys(d) == [i \in DOMAIN d |-> d[i].key]

\* C24: a signal sample line leaves the keys of the live map as they are,
\* emits nothing and changes at most the rssi of one entry; a data header
\* line and an emergency line emit their event and leave the live map as it
\* is; so the keys change on voice header and voice end lines only.
C24_KeysChangeOnVoiceLinesOnly ==
    [][lines' = lines + 1 =>
          /\ last_line'.kind = "rssi" =>
                /\ Keys(current_transmissions') = Keys(current_transmissions)
                /\ emitted' = <<>>
                /\ Cardinality({i \in DOMAIN current_transmissions :
                        current_transmissions'[i] # current_transmissions[i]}) <= 1
                /\ \A i \in DOMAIN current_transmissions :
                        [current_transmissions'[i] EXCEPT !.value.rssi = None]
                            = [current_transmissions[i] EXCEPT !.value.rssi = None]
          /\ last_line'.kind \in {"data_header", "emergency"} =>
                /\ current_transmissions' = current_transmissions
                /\ Len(emitted') = 1
                /\ emitted'[1].event =
                        IF last_line'.kind = "emergency" THEN "emergency"
                        ELSE "data_transmission"
          /\ Keys(current_transmissions') # Keys(current_transmissions) =>
                last_line'.kind \in {"voice_header", "voice_end"}]_vars

\* two transmissions open on one slot and a sample for that slot just read
C24_Witness ==
    /\ last_line.kind = "rssi"
    /\ \E i, j \in DOMAIN current_transmissions :
          /\ i # j
          /\ current_transmissions[i].value.slot = current_transmissions[j].value.slot
          /\ current_transmissions[i].value.slot = IntVal(last_line.slot)
          /\ current_transmissions[i].value.rssi # None

\* C25: an item queued for a transmission that came with an artifact keeps
\* the artifact's path, and when the drain thread takes such an item after
\* the file was deleted, it makes the delivery attempt, without the audio
\* part: taking the item does not end in the exception handler of the loop.
C25_RetryWithoutDeletedArtifact ==
    [][(pc["drain"] = "get" /\ pc'["drain"] # "get" /\ held' # NoItem
            /\ held'.type = "transmission" /\ ~artifact_exists)
          => /\ held'.audio_file = AudioPath
             /\ pc'["drain"] = "request"
             /\ ~frame'["drain"].files]_vars

\* the flush of a foreground enqueue fails in this step
EnqueueFlushFails ==
    /\ pc["fg"] \in {"save_open", "save_write"}
    /\ frame["fg"].result = "pending"
    /\ error_log' # error_log
    /\ pc'["fg"] # pc["fg"]

ItemsOf(q, kept) == SelectSeq(q, LAMBDA it : it \in kept)
Ids(q) == {RecordId(q[i].type, q[i].data) : i \in DOMAIN q}

DrainFlushWrites == pc["drain"] = "save_write" /\ pc'["drain"] = "loop"

\* C29: the file the drain thread writes after it delivered an item does not
\* contain that item, and contains every other item that is queued (items are
\* told apart by their enqueue timestamps).
C29_FileShrinksByDeliveredItem ==
    [][DrainFlushWrites =>
          /\ \A item \in Range(FileItems') : item.timestamp # held.timestamp
          /\ \A q \in Range(offline_queue') \cup Range(temp_queue'["fg"]) :
                \E item \in Range(FileItems') : item.timestamp = q.timestamp]_vars

\* C30: the request the drain thread builds for a queued item carries the
\* field values of the request of the original attempt, which are the ones
\* stored in the item.
C30_RedeliveredUnchanged ==
    pc["drain"] = "request" => frame["drain"].data = held.data

\* C27: whatever failed while a record was handled (the callback raised, the
\* delivery failed, the flush failed, the drain thread's attempt raised), the
\* tailer has not stopped and takes the next line as soon as the callback is
\* back, and the drain thread has not left its loop.
C27_FailureNeverStopsPipeline ==
    /\ tail_pc # "stopped"
    /\ tail_pc # "init" => running
    /\ (LineWaiting /\ pc["fg"] = "idle") => ENABLED CollectorReadLine
    /\ pc["drain"] # "exited"
    /\ pc["drain"] # "off" => ~stop_event
    /\ pc["drain"] = "loop" => ENABLED DrainLoop
    /\ pc["drain"] = "except" => ENABLED DrainExcept

\* the callback raised for one line and a later line was processed all the
\* same, with the drain thread in its loop
C27_Witness ==
    /\ \E e \in error_log : e.what = "handle_dmr_event" /\ Len(fed) > e.record
    /\ pc["drain"] = "loop"

\* C26: every attempt of a deliver call that was given an artifact whose
\* file existed uploads the whole artifact, the second and later attempts
\* of the call as well.
C26_EveryAttemptCarriesArtifact ==
    \A t \in Threads :
        frame[t].files => \A i \in DOMAIN frame[t].sent : frame[t].sent[i] = "full"

VoiceHeadersFed == SelectSeq(fed, LAMBDA n : log_file[n].kind = "voice_header")

\* C23: the start_recording calls made so far are, in order, one for each
\* voice header line handed to _process_line so far, with the slot, radio
\* and destination of that line, each made when the live map already had
\* the new entry: the call is made before the next line is read.
C23_RecordingStartedBeforeNextLine ==
    recording_calls =
        [i \in DOMAIN VoiceHeadersFed |->
            LET line == log_file[VoiceHeadersFed[i]] IN
            [args |-> <<IntVal(int(line.slot)), IntVal(int(line.radio)),
                        IntVal(int(line.dest[2]))>>,
             live |-> TRUE]]

C23_Witness ==
    /\ Len(fed) >= 2
    /\ log_file[fed[1]].kind = "voice_header"
    /\ Len(recording_calls) >= 1
    /\ pc["fg"] = "idle"

(***************************************************************************)
(* Properties of the shutdown of the collector.                            *)
(***************************************************************************)
AllLoopsOver ==
    /\ tail_pc = "stopped"
    /\ \A l \in Loops : loop_pc[l] = "exited"
    /\ pc["drain"] = "exited"

\* C18: once the global stop event is set (by signal_handler on SIGINT or
\* SIGTERM), the tailer eventually leaves its wait or read loop and the
\* command, cleanup, status and drain loops eventually exit.
C18_StopSignalEndsEveryLoop ==
    global_stop_event ~> AllLoopsOver

StopQueueReturned == stop_pc \in {"set_event", "stopped"}

\* C19: when stop_queue_processor has returned, and so when the collector's
\* stop has, the drain thread is over (or was never started).
C19_DrainOverWhenStopReturns ==
    StopQueueReturned => pc["drain"] \in {"off", "exited"}

(***************************************************************************)
(* Properties of the functions called on their own.                        *)
(***************************************************************************)
WholeSecond(dt) == dt[2] \div 1000

\* C31: _format_datetime gives None for None, and for a datetime the text of
\* its date and time to the second: datetimes get the same text exactly
\* when they agree up to the second, whatever their sub-second part and
\* their timezone.
C31_FormatToTheSecond ==
    (call.fn = "_format_datetime" /\ call.done) =>
        IF call.args[1] = None
        THEN call.out = None
        ELSE /\ call.out[1] = "str"
             /\ \A dt \in DateTimes :
                   (WholeSecond(dt) = WholeSecond(call.args[1]))
                       <=> (_format_datetime(dt) = call.out)

\* an aware datetime with a sub-second part was formatted
C31_Witness ==
    /\ call.fn = "_format_datetime"
    /\ call.done
    /\ Len(call.args[1]) = 3
    /\ call.args[1][2] % 1000 # 0
    /\ call.out[1] = "str"

Ran(fn) == call' # call /\ call'.fn = fn

\* C32: update_slot_status(slot, active) sets the rx flag of that slot to
\* active and leaves the flag of the other slot, the two connection flags
\* and last_dmr_data as they were; update_db_status and update_api_status
\* change their own flag and none of the other flags nor last_dmr_data;
\* get_status returns the status as it stands and changes nothing.
C32_StatusFrame ==
    [][/\ Ran("update_slot_status") =>
            LET slot == call'.args[1]
                active == call'.args[2] IN
            /\ slot = 1 => status'.slot1_rx = active /\ status'.slot2_rx = status.slot2_rx
            /\ slot = 2 => status'.slot2_rx = active /\ status'.slot1_rx = status.slot1_rx
            /\ slot \notin {1, 2} => /\ status'.slot1_rx = status.slot1_rx
                                     /\ status'.slot2_rx = status.slot2_rx
            /\ status'.db_connected = status.db_connected
            /\ status'.api_connected = status.api_connected
            /\ status'.last_dmr_data = status.last_dmr_data
       /\ Ran("update_db_status") =>
            status' = [status EXCEPT !.db_connected = call'.args[1],
                                     !.last_update = status'.last_update]
       /\ Ran("update_api_status") =>
            status' = [status EXCEPT !.api_connected = call'.args[1],
                                     !.last_update = status'.last_update]
       /\ Ran("get_status") => call'.args[1] = status /\ status' = status]_vars

\* slot 2 was set to receiving while slot 1 was, and get_status returned both
C32_Witness ==
    /\ call.fn = "get_status"
    /\ call.args[1].slot1_rx
    /\ call.args[1].slot2_rx
    /\ ~call.args[1].db_connected

\* the number a text stands for, in tenths
Tenths(number) ==
    LET magnitude == 10 * int(number.whole) + int(number.fraction) IN
    IF number.sign = "-" THEN 0 - magnitude ELSE magnitude

\* C33: for a text of two decimal numbers parse_gps returns a position
\* exactly when the first is within [-90, 90] and the second within
\* [-180, 180], and the position then holds those two numbers.
C33_DecimalPositionInRange ==
    (call.fn = "parse_gps" /\ call.done /\ IsDecimal(call.args[1]) /\ IsDecimal(call.args[2])) =>
        LET lat == Tenths(call.args[1])
            lon == Tenths(call.args[2]) IN
        /\ (call.out # None) <=>
               (0 - 900 <= lat /\ lat <= 900 /\ 0 - 1800 <= lon /\ lon <= 1800)
        /\ call.out # None =>
               /\ call.out[2].latitude = FloatVal(lat)
               /\ call.out[2].longitude = FloatVal(lon)

\* a position on the edge of the range was returned
C33_Witness ==
    /\ call.fn = "parse_gps"
    /\ call.done
    /\ call.out # None
    /\ call.out[2].latitude = FloatVal(0 - 900)
    /\ call.out[2].longitude = FloatVal(1800)

\* the command ran its external tool: its fields passed the handler's checks
RunsTool(command) ==
    CASE command.command_type = "sms" ->
             command.message # "" /\ (command.target_radio_id # None \/ command.target_talkgroup_id # None)
      [] command.command_type \in {"call_alert", "gps_request", "radio_check", "remote_monitor"} ->
             command.target_radio_id # None
      [] OTHER -> FALSE

\* C34: once the commands of a poll have been run, each of them has exactly
\* one report, in the order of the list; the report says completed when
\* the tool ran and exited with 0 or is not installed, and failed with an
\* error message in every other case, an unknown command type among them.
C34_OneReportPerCommand ==
    commands = <<>> =>
        /\ Len(reports) = Len(polled)
        /\ \A i \in 1..Len(polled) :
              /\ reports[i].command_id = polled[i].id
              /\ Cardinality({j \in 1..Len(reports) : reports[j].command_id = polled[i].id}) = 1
              /\ IF RunsTool(polled[i]) /\ reports[i].tool \in {"exit_0", "not_installed"}
                 THEN reports[i].status = "completed"
                 ELSE reports[i].status = "failed" /\ reports[i].error_message # None

\* a poll returned a command whose tool is not installed and one of an
\* unknown type, and both have been reported
C34_Witness ==
    /\ commands = <<>>
    /\ Len(polled) = 2
    /\ polled[1].command_type = "sms" /\ reports[1].tool = "not_installed"
    /\ reports[1].status = "completed"
    /\ polled[2].command_type = "reboot" /\ reports[2].status = "failed"

(***************************************************************************)
(* Properties of a slot with several Transmissions open.                   *)
(***************************************************************************)
OpenOnSlot(d, slot) == {i \in DOMAIN d : d[i].value.slot = IntVal(slot)}

\* C35: after a VoiceEnd on a slot has been processed, no open Transmission
\* with that slot remains in the live map, whatever preceded.
C35_EndLeavesSlotEmpty ==
    last_line.kind = "voice_end" => OpenOnSlot(current_transmissions, last_line.slot) = {}

\* the entry on the slot whose VoiceStart came last
LatestOnSlot(d, slot) ==
    CHOOSE i \in OpenOnSlot(d, slot) :
        \A j \in OpenOnSlot(d, slot) : d[j].value.start_time[2] <= d[i].value.start_time[2]

\* C36: with several Transmissions open on a slot, a SignalSample sets the
\* rssi of exactly one of them and a VoiceEnd closes and emits exactly one
\* of them, and both pick the one that was started most recently.
C36_LatestOnSlotPicked ==
    [][\A slot \in Slots :
          (/\ lines' = lines + 1
           /\ last_line'.slot = slot
           /\ Cardinality(OpenOnSlot(current_transmissions, slot)) > 1)
          => LET latest == LatestOnSlot(current_transmissions, slot)
                 key == current_transmissions[latest].key
             IN /\ last_line'.kind = "rssi" =>
                       current_transmissions' =
                           SetRssi(current_transmissions, latest, window_sample'[key])
                /\ last_line'.kind = "voice_end" =>
                       /\ Len(emitted') = 1
                       /\ emitted'[1].data.radio_id = current_transmissions[latest].value.radio_id
                       /\ emitted'[1].data.start_time =
                              current_transmissions[latest].value.start_time
                       /\ current_transmissions' = DictDel(current_transmissions, key)]_vars

(***************************************************************************)
(* Properties of the audio recordings.                                     *)
(***************************************************************************)
\* C37: a recording begun on a VoiceStart is ended once its Transmission is
\* closed or replaced by a new VoiceStart on the same key: no arecord
\* process runs without an entry of active_recordings that holds its id.
C37_RunningRecordingReachable ==
    \A p \in processes : \E e \in recording_ids : e.recording_id = p

(***************************************************************************)
(* Properties of the queue processor's threads.                            *)
(***************************************************************************)
\* C38: at most one thread runs _process_offline_queue at any time, however
\* calls of start_queue_processor and stop_queue_processor follow each
\* other.
C38_OneDrainThread == Cardinality(alive) <= 1

\* the processor was stopped and started again: the second thread runs, the
\* first has ended
C38_Witness ==
    /\ spawned >= 2
    /\ alive = {spawned}
    /\ thread_pc[1] = "ended"
    /\ ~stop_event

(***************************************************************************)
(* Properties of the order of the drain loop's attempts.                   *)
(***************************************************************************)
\* the items that are queued: in the queue, or taken out of it by a flush
\* that has not put them back yet
QueuedItems ==
    {offline_queue[i] : i \in DOMAIN offline_queue}
        \cup UNION {{temp_queue[t][i] : i \in DOMAIN temp_queue[t]} : t \in Threads}

\* C39: the drain loop attempts the queued items in the order they were
\* enqueued; as long as no attempt has failed (a failed item goes behind the
\* others), the item it takes is the one that was enqueued first.
C39_DrainTakesOldest ==
    [][(/\ pc["drain"] = "get"
        /\ pc'["drain"] # "get"
        /\ offline_queue # <<>>
        /\ failures = 0)
       => \A it \in QueuedItems : held'.timestamp <= it.timestamp]_vars

(***************************************************************************)
(* Properties of the choice of the handler.                                *)
(***************************************************************************)
\* the handler that ran on the text processed last, and what it emitted
HandledAs(kind, events) ==
    /\ last_line.kind = kind
    /\ \A k \in DOMAIN emitted : emitted[k].event \in events

\* C40: a line triggers at most one handler, the one of the first pattern
\* that matches in the order voice start, voice end, signal sample, data
\* header, emergency; a line that matches the signal-sample pattern and
\* also the data-header or the emergency pattern is handled as a signal
\* sample and emits no data or emergency event.
C40_FirstMatchingPattern ==
    call.fn = "_process_line" =>
        LET text == call.args[1]
            m(pattern) == Matches(pattern, text)
        IN /\ Len(emitted) <= 1
           /\ m("voice_header") => HandledAs("voice_header", {"transmission_start"})
           /\ (~m("voice_header") /\ m("voice_end")) => HandledAs("voice_end", {"transmission_end"})
           /\ (~m("voice_header") /\ ~m("voice_end") /\ m("rssi")) => HandledAs("rssi", {})
           /\ (~m("voice_header") /\ ~m("voice_end") /\ ~m("rssi") /\ m("data_header")) =>
                  HandledAs("data_header", {"data_transmission"})
           /\ (~m("voice_header") /\ ~m("voice_end") /\ ~m("rssi") /\ ~m("data_header")
                 /\ m("emergency")) => HandledAs("emergency", {"emergency"})
           /\ (\A pattern \in {"voice_header", "voice_end", "rssi", "data_header", "emergency"} :
                  ~m(pattern)) => HandledAs("none", {})

\* a data header line that carries an RSSI value and the word Emergency was
\* handled as a signal sample
C40_Witness ==
    /\ call.fn = "_process_line"
    /\ call.args[1].stamped
    /\ call.args[1].said = "received data header from 7 to TG 1"
    /\ call.args[1].rest = {"RSSI: -60", "Emergency"}
    /\ last_line.kind = "rssi"
    /\ emitted = <<>>

====
